---- MODULE Spec2Model ----
(***************************************************************************)
(* NOOBIE AI news aggregation: NewsFetcher (news_fetcher.py) and the       *)
(* configuration it reads (config.py, function_app.py).                    *)
(*                                                                         *)
(* Text is modelled at character level: a Python str is a sequence of      *)
(* one-character strings, so that str.lower() and str.split() are          *)
(* computed, not assumed.  Time is counted in ticks, TicksPerSecond to the *)
(* second; it advances only while the program blocks (time.sleep, a        *)
(* network call).                                                          *)
(***************************************************************************)
EXTENDS Integers, Sequences, FiniteSets, TLC

\* ------------------------------------------------------------------ bounds
\* Longest article list handed to _deduplicate_articles by SpecDedup.
MaxLen == 3
\* Resolution of the clock.
TicksPerSecond == 2
\* Longest time a network call may block, in ticks.
MaxLatency == 1
MaxResults == 12
\* requests the food tracker's server accepts in one behaviour
MaxRequests == 3

\* ------------------------------------------------------- program constants
\* max_retries, the default of _make_request_with_retry.
max_retries == 3
\* max_results passed to fetch_gnews and fetch_google_news_rss.
PerTopicLimit == 3
\* count passed to generate_mock_articles.
MockCount == 2
\* The duplicate threshold 0.7, as the fraction SimilarityNum / SimilarityDen.
SimilarityNum == 7
SimilarityDen == 10
\* The keyed provider's maximum page size.
GNewsLimit == 10
\* self.min_request_interval = 1.0 second, in ticks.
min_request_interval == 1 * TicksPerSecond

\* -------------------------------------------------------------------- text
UpperCase == <<"A","B","C","D","E","F","G","H","I","J","K","L","M","N","O","P","Q","R","S","T","U","V","W","X","Y","Z">>
LowerCase == <<"a","b","c","d","e","f","g","h","i","j","k","l","m","n","o","p","q","r","s","t","u","v","w","x","y","z">>

\* str.lower() on one character.
LowerChar(c) ==
    IF \E i \in 1..Len(UpperCase) : UpperCase[i] = c
    THEN LowerCase[CHOOSE i \in 1..Len(UpperCase) : UpperCase[i] = c]
    ELSE c

\* str.lower().
Lower(s) == [i \in 1..Len(s) |-> LowerChar(s[i])]

IsSpace(c) == c = " "

\* str.split() with no argument: the maximal runs of non-whitespace, in order.
RECURSIVE SplitFrom(_, _, _, _)
SplitFrom(s, i, word, acc) ==
    IF i > Len(s)
    THEN IF word = <<>> THEN acc ELSE Append(acc, word)
    ELSE IF IsSpace(s[i])
         THEN SplitFrom(s, i + 1, <<>>, IF word = <<>> THEN acc ELSE Append(acc, word))
         ELSE SplitFrom(s, i + 1, Append(word, s[i]), acc)

Split(s) == SplitFrom(s, 1, <<>>, <<>>)

\* set(s.split())
WordSet(s) == { Split(s)[i] : i \in 1..Len(Split(s)) }

\* A str / None field value: None is the one value that is no character
\* sequence of the pools below.  Truthy is Python's truth test on such a value.
None == <<"None">>
Truthy(v) == v # None /\ v # <<>>

\* What a call produces: a returned value, or the exception it raises.
Returns(v) == [raised |-> "none", value |-> v]
Raises(e) == [raised |-> e, value |-> <<>>]

\* Python seq[:n] for an int n (a negative n counts from the end).
SliceTo(seq, n) ==
    IF n >= 0
    THEN SubSeq(seq, 1, IF n < Len(seq) THEN n ELSE Len(seq))
    ELSE SubSeq(seq, 1, IF Len(seq) + n > 0 THEN Len(seq) + n ELSE 0)

\* ---------------------------------------------------------------- titles
FedFour == <<"F","e","d"," ","R","a","i","s","e","s"," ","I","n","t","e","r","e","s","t"," ","R","a","t","e","s">>
FedFive == <<"F","e","d"," ","R","a","i","s","e","s"," ","I","n","t","e","r","e","s","t"," ","R","a","t","e","s"," ","A","g","a","i","n">>
FedThree == <<"F","e","d"," ","R","a","i","s","e","s"," ","I","n","t","e","r","e","s","t">>
FedShout == <<"F","E","D"," "," ","r","a","i","s","e","s"," ","I","N","T","E","R","E","S","T"," ","r","a","t","e","s">>
Seven == <<"a"," ","b"," ","c"," ","d"," ","e"," ","f"," ","g">>
Ten == <<"a"," ","b"," ","c"," ","d"," ","e"," ","f"," ","g"," ","h"," ","i"," ","j">>
Blank == <<" ">>
Oil == <<"O","i","l"," ","F","a","l","l","s">>
Moon == <<"M","o","o","n"," ","B","a","s","e"," ","O","p","e","n","s">>
Chip == <<"C","h","i","p"," ","B","a","n"," ","W","i","d","e","n","s">>
Vote == <<"V","o","t","e"," ","C","o","u","n","t"," ","E","n","d","s">>
SomeText == <<"n","e","w","s">>

\* ------------------------------------------------------------- NewsArticle
\* The dataclass NewsArticle, with the fields the aggregation reads or sets.
NewsArticle(title, summary, url, source, category) ==
    [title |-> title, summary |-> summary, url |-> url,
     source |-> source, category |-> category]

\* ------------------------------------------------------- _deduplicate_articles
\* len(a & b) / len(a | b) > 0.7, for a non-empty union.
TooSimilar(title_words, seen_words) ==
    SimilarityDen * Cardinality(title_words \cap seen_words)
        > SimilarityNum * Cardinality(title_words \cup seen_words)

\* The division len(a & b) / len(a | b) raises ZeroDivisionError.
DivisionByZero(title_words, seen_words) ==
    Cardinality(title_words \cup seen_words) = 0

\* Mutant of SeenAfter: seen_titles is replaced by the latest title, kept or not.
SeenLatestOnly(is_duplicate, seen_titles, article) == {Lower(article.title)}

\* seen_titles after the article was looked at: its lower-cased title is added
\* when it is kept.
SeenAfter(is_duplicate, seen_titles, article) ==
    IF is_duplicate THEN seen_titles ELSE seen_titles \cup {Lower(article.title)}

\* The loop of _deduplicate_articles from article i on; seen_titles is the set
\* of lower-cased titles of the articles kept so far.  The inner loop visits
\* seen_titles in set order and stops at the first duplicate; an empty
\* title_words has no duplicate (the intersection is empty), and a non-empty
\* one never divides by zero, so the outcome does not depend on that order.
RECURSIVE DedupFrom(_, _, _, _)
DedupFrom(articles, i, unique_articles, seen_titles) ==
    IF i > Len(articles)
    THEN Returns(unique_articles)
    ELSE LET article == articles[i]
             title_words == WordSet(Lower(article.title))
             is_duplicate == \E seen_title \in seen_titles :
                                 TooSimilar(title_words, WordSet(seen_title))
             divides_by_zero == \E seen_title \in seen_titles :
                                    DivisionByZero(title_words, WordSet(seen_title))
         IN  IF divides_by_zero
             THEN Raises("ZeroDivisionError")
             ELSE DedupFrom(articles, i + 1,
                            IF is_duplicate THEN unique_articles
                                            ELSE Append(unique_articles, article),
                            SeenAfter(is_duplicate, seen_titles, article))

\* Mutant of _deduplicate_articles: the kept articles' titles are normalised.
_deduplicate_articles_lowercasing(articles) ==
    IF DedupFrom(articles, 1, <<>>, {}).raised = "none"
    THEN Returns([i \in 1..Len(DedupFrom(articles, 1, <<>>, {}).value) |->
                     [DedupFrom(articles, 1, <<>>, {}).value[i]
                          EXCEPT !.title = Lower(@)]])
    ELSE DedupFrom(articles, 1, <<>>, {})

_deduplicate_articles(articles) == DedupFrom(articles, 1, <<>>, {})

\* ------------------------------------------------------------ configuration
GlobalPolitics == <<"g","l","o","b","a","l"," ","p","o","l","i","t","i","c","s">>
TechnologyTrends == <<"t","e","c","h","n","o","l","o","g","y"," ","t","r","e","n","d","s">>

\* The NoobieConfig fields NewsFetcher reads.  news_api_key is None when
\* NEWS_API_KEY is unset; max_articles is any int: from_env and
\* manual_blog_generation take it through int() and the manual run does not
\* call validate().
ApiKeys == {None, <<"k","e","y">>}
MaxArticlesValues == {-1, 0, 4}
TopicLists == {<<>>, <<GlobalPolitics>>, <<GlobalPolitics, TechnologyTrends>>}

Configs ==
    [news_api_key : ApiKeys, mock_mode : BOOLEAN,
     max_articles : MaxArticlesValues, news_categories : TopicLists]

\* The range validate() accepts for max_articles.
MinArticles == 1
MaxArticles == 20

\* NoobieConfig.validate(), for the fields of the model.
validate(cfg) ==
    (IF ~Truthy(cfg.news_api_key) THEN {"NEWS_API_KEY is required"} ELSE {})
    \cup (IF cfg.max_articles < MinArticles \/ cfg.max_articles > MaxArticles
          THEN {"max_articles must be between 1 and 20"} ELSE {})

\* ------------------------------------------------------------ upstream data
\* A key the upstream object does not have.
Missing == <<"Missing">>

\* dict.get(key, default) on a field of an upstream object.
Get(value, default) == IF value = Missing THEN default ELSE value

\* -------------------------------------------------------------- load_config
\* int(s) for a string of decimal digits.
Digits == <<"0","1","2","3","4","5","6","7","8","9">>
DigitValue(c) == (CHOOSE i \in 1..Len(Digits) : Digits[i] = c) - 1
RECURSIVE ParseInt(_)
ParseInt(s) ==
    IF s = <<>> THEN 0 ELSE 10 * ParseInt(SubSeq(s, 1, Len(s) - 1)) + DigitValue(s[Len(s)])

TrueWord == <<"t","r","u","e">>
TrueShout == <<"T","R","U","E">>
FalseWord == <<"f","a","l","s","e">>
Eight == <<"8">>
Five == <<"5">>
EnvKey == <<"k","e","y">>
FileKey == <<"f","i","l","e","k","e","y">>

\* The default of news_categories, shortened to its first two topics.
DefaultCategories == <<GlobalPolitics, TechnologyTrends>>
DefaultMaxArticles == 8

\* os.environ: each variable is unset (Missing) or a string.
NoEnviron == [NEWS_API_KEY |-> Missing, MAX_ARTICLES |-> Missing, MOCK_MODE |-> Missing]
Environs ==
    [NEWS_API_KEY : {Missing, EnvKey},
     MAX_ARTICLES : {Missing, Eight, Five},
     MOCK_MODE : {Missing, FalseWord, TrueWord, TrueShout}]

\* config.json: absent, or an object that provides some of the fields.
ConfigFile(provides, news_api_key, max_articles, mock_mode, news_categories) ==
    [exists |-> TRUE, provides |-> provides, news_api_key |-> news_api_key,
     max_articles |-> max_articles, mock_mode |-> mock_mode,
     news_categories |-> news_categories]
NoConfigFile ==
    [exists |-> FALSE, provides |-> {}, news_api_key |-> None, max_articles |-> 0,
     mock_mode |-> FALSE, news_categories |-> <<>>]
ConfigFiles ==
    { NoConfigFile,
      ConfigFile({}, None, 0, FALSE, <<>>),
      ConfigFile({"max_articles"}, None, 4, FALSE, <<>>),
      ConfigFile({"mock_mode"}, None, 0, TRUE, <<>>),
      ConfigFile({"news_api_key"}, FileKey, 0, FALSE, <<>>),
      ConfigFile({"news_categories"}, None, 0, FALSE, <<TechnologyTrends>>),
      ConfigFile({"news_api_key", "max_articles", "mock_mode", "news_categories"},
                 FileKey, 4, TRUE, <<TechnologyTrends>>) }

\* NoobieConfig.from_env
from_env(env) ==
    [news_api_key |-> Get(env.NEWS_API_KEY, None),
     mock_mode |-> Lower(Get(env.MOCK_MODE, FalseWord)) = TrueWord,
     max_articles |-> ParseInt(Get(env.MAX_ARTICLES, Eight)),
     news_categories |-> DefaultCategories]

\* NoobieConfig.from_file: cls(**config_data), a field the file leaves out
\* taking its default.
from_file(file) ==
    [news_api_key |-> IF "news_api_key" \in file.provides THEN file.news_api_key ELSE None,
     mock_mode |-> IF "mock_mode" \in file.provides THEN file.mock_mode ELSE FALSE,
     max_articles |-> IF "max_articles" \in file.provides THEN file.max_articles
                      ELSE DefaultMaxArticles,
     news_categories |-> IF "news_categories" \in file.provides THEN file.news_categories
                         ELSE DefaultCategories]

\* env_value == field_def.default, for the merge of load_config.  The field
\* news_categories has a default_factory: its field_def.default is
\* dataclasses.MISSING, which equals no value.
equals_default(field_name, env_value) ==
    IF field_name = "news_categories" THEN FALSE
    ELSE IF field_name = "news_api_key" THEN env_value = None
    ELSE IF field_name = "mock_mode" THEN env_value = FALSE
    ELSE env_value = DefaultMaxArticles

\* load_config
load_config(env, file) ==
    IF ~file.exists
    THEN from_env(env)
    ELSE [news_api_key |->
              IF equals_default("news_api_key", from_env(env).news_api_key)
              THEN from_file(file).news_api_key ELSE from_env(env).news_api_key,
          mock_mode |->
              IF equals_default("mock_mode", from_env(env).mock_mode)
              THEN from_file(file).mock_mode ELSE from_env(env).mock_mode,
          max_articles |->
              IF equals_default("max_articles", from_env(env).max_articles)
              THEN from_file(file).max_articles ELSE from_env(env).max_articles,
          news_categories |->
              IF equals_default("news_categories", from_env(env).news_categories)
              THEN from_file(file).news_categories ELSE from_env(env).news_categories]

\* One element of the 'articles' array of a GNews response: a JSON object
\* (is_object) with some of the expected keys, or any other JSON value.
GNewsEntry(title, description, url) ==
    [is_object |-> TRUE, title |-> title, description |-> description, url |-> url]
NotAnObject ==
    [is_object |-> FALSE, title |-> Missing, description |-> Missing, url |-> "-"]

Rain == <<"R","a","i","n"," ","E","n","d","s"," ","D","r","o","u","g","h","t">>
Gold == <<"G","o","l","d"," ","H","i","t","s"," ","R","e","c","o","r","d">>
Port == <<"P","o","r","t"," ","S","t","r","i","k","e"," ","O","v","e","r">>

\* The decoded JSON bodies the keyed API may answer with.  json is the shape of
\* the body: "articles_list" an object whose 'articles' is an array,
\* "no_articles" an object without that key (or an empty object),
\* "articles_null" an object whose 'articles' is null.
GNewsBody(json, articles) == [json |-> json, articles |-> articles]

GNewsBodies ==
    { GNewsBody("no_articles", <<>>),
      GNewsBody("articles_null", <<>>),
      GNewsBody("articles_list", <<>>),
      GNewsBody("articles_list", <<GNewsEntry(FedFour, SomeText, "g1")>>),
      GNewsBody("articles_list", <<GNewsEntry(FedFour, SomeText, "g1"),
                                   GNewsEntry(FedFive, SomeText, "g2")>>),
      GNewsBody("articles_list", <<GNewsEntry(FedFour, SomeText, "g1"),
                                   GNewsEntry(Oil, SomeText, "g3"),
                                   GNewsEntry(Moon, SomeText, "g4"),
                                   GNewsEntry(Chip, SomeText, "g5")>>),
      GNewsBody("articles_list", <<GNewsEntry(Vote, SomeText, "g6"),
                                   GNewsEntry(Rain, SomeText, "g7"),
                                   GNewsEntry(Gold, SomeText, "g8")>>),
      GNewsBody("articles_list", <<GNewsEntry(Missing, SomeText, "g9"),
                                   NotAnObject,
                                   GNewsEntry(Port, None, "g10")>>),
      GNewsBody("articles_list", <<GNewsEntry(<<>>, SomeText, "g11"),
                                   GNewsEntry(Blank, SomeText, "g12")>>) }

\* What _make_request_with_retry returns when every attempt failed.
NoData == GNewsBody("None", <<>>)

\* One entry of a parsed feed.  parses is FALSE for an entry whose fields make
\* the construction of the article raise (a published_parsed that is no date).
FeedEntry(title, summary, description, link) ==
    [parses |-> TRUE, title |-> title, summary |-> summary,
     description |-> description, link |-> link]
BrokenEntry ==
    [parses |-> FALSE, title |-> Missing, summary |-> Missing,
     description |-> Missing, link |-> "-"]

\* What feedparser.parse gives: raises is TRUE when the call (or the loop's
\* set-up) raises; bozo marks malformed XML, of which feedparser keeps the
\* entries it could read.
Feed(raises, bozo, entries) == [raises |-> raises, bozo |-> bozo, entries |-> entries]

\* The value of feed while no feed was parsed.
NoFeed == Feed(FALSE, FALSE, <<>>)

\* Feeds that feedparser.parse may give: one that raises, malformed ones of
\* which nothing or some entries could be read, and well-formed ones.
Feeds ==
    { Feed(TRUE, FALSE, <<>>),
      Feed(FALSE, TRUE, <<>>),
      Feed(FALSE, TRUE, <<FeedEntry(Rain, SomeText, Missing, "r0"),
                          FeedEntry(Missing, Missing, Missing, "-")>>),
      Feed(FALSE, FALSE, <<FeedEntry(Blank, SomeText, Missing, "r1")>>),
      Feed(FALSE, FALSE, <<FeedEntry(FedShout, Missing, SomeText, "r2"),
                           BrokenEntry,
                           FeedEntry(Port, Missing, Missing, "r3")>>),
      Feed(FALSE, FALSE, <<FeedEntry(Seven, SomeText, Missing, "r4"),
                           FeedEntry(Ten, SomeText, Missing, "r5"),
                           FeedEntry(Port, SomeText, Missing, "r6"),
                           FeedEntry(Gold, SomeText, Missing, "r7")>>) }

\* Mutant of Retained: the summary is not tested.
RetainedTitleOnly(article) == Truthy(article.title)

\* if article.title and article.summary: the test both fetchers apply before
\* they append an article.
Retained(article) == Truthy(article.title) /\ Truthy(article.summary)

\* ------------------------------------------------------------- fetch_gnews
\* The for loop of fetch_gnews over data['articles'][:max_results]: an entry
\* that is no object raises inside the try and is skipped; an article is kept
\* when its title and its summary are truthy.
RECURSIVE ParseGNewsEntries(_, _, _, _)
ParseGNewsEntries(entries, i, query, articles) ==
    IF i > Len(entries)
    THEN articles
    ELSE LET article_data == entries[i]
             article == NewsArticle(Get(article_data.title, <<>>),
                                    Get(article_data.description, <<>>),
                                    article_data.url, "GNews", query)
         IN  ParseGNewsEntries(entries, i + 1, query,
                 IF article_data.is_object /\ Retained(article)
                 THEN Append(articles, article)
                 ELSE articles)

\* Mutant of ParseGNews: 'articles' not in data is evaluated on None too.
ParseGNewsNoneUnchecked(data, query, max_results) ==
    IF data.json = "no_articles"
    THEN Returns(<<>>)
    ELSE IF data.json \in {"None", "articles_null"}
         THEN Raises("TypeError")
         ELSE Returns(ParseGNewsEntries(SliceTo(data.articles, max_results), 1, query, <<>>))

\* fetch_gnews after _make_request_with_retry returned data.
ParseGNews(data, query, max_results) ==
    IF data.json \in {"None", "no_articles"}
    THEN Returns(<<>>)
    ELSE IF data.json = "articles_null"
         THEN Raises("TypeError")
         ELSE Returns(ParseGNewsEntries(SliceTo(data.articles, max_results), 1, query, <<>>))

\* ---------------------------------------------------------- fetch_rss_feed
RECURSIVE ParseFeedEntries(_, _, _, _)
ParseFeedEntries(entries, i, category, articles) ==
    IF i > Len(entries)
    THEN articles
    ELSE LET entry == entries[i]
             article == NewsArticle(Get(entry.title, <<>>),
                                    Get(entry.summary, Get(entry.description, <<>>)),
                                    entry.link, "RSS Feed", category)
         IN  ParseFeedEntries(entries, i + 1, category,
                 IF entry.parses /\ Retained(article)
                 THEN Append(articles, article)
                 ELSE articles)

\* Mutant of ParseFeed: a malformed feed is dropped as a whole.
ParseFeedDropsMalformed(feed, category, max_results) ==
    IF feed.raises \/ feed.bozo
    THEN <<>>
    ELSE ParseFeedEntries(SliceTo(feed.entries, max_results), 1, category, <<>>)

\* fetch_rss_feed after feedparser.parse: any exception gives the empty list.
ParseFeed(feed, category, max_results) ==
    IF feed.raises
    THEN <<>>
    ELSE ParseFeedEntries(SliceTo(feed.entries, max_results), 1, category, <<>>)

\* --------------------------------------------------- generate_mock_articles
UpperChar(c) ==
    IF \E i \in 1..Len(LowerCase) : LowerCase[i] = c
    THEN UpperCase[CHOOSE i \in 1..Len(LowerCase) : LowerCase[i] = c]
    ELSE c

IsLetter(c) ==
    \E i \in 1..Len(LowerCase) : LowerCase[i] = c \/ UpperCase[i] = c

\* str.title(): a letter is upper-cased when it follows a non-letter (or starts
\* the string) and lower-cased otherwise.
TitleCase(s) ==
    [i \in 1..Len(s) |->
        IF i = 1 \/ ~IsLetter(s[i - 1]) THEN UpperChar(s[i]) ELSE LowerChar(s[i])]

BreakingPrefix == <<"B","r","e","a","k","i","n","g",":"," ","M","a","j","o","r"," ","D","e","v","e","l","o","p","m","e","n","t"," ","i","n"," ">>
TrendsSuffix == <<" ","T","r","e","n","d","s"," ","S","h","o","w"," ","P","o","s","i","t","i","v","e"," ","G","r","o","w","t","h">>
ExpertPrefix == <<"E","x","p","e","r","t"," ","C","o","m","m","e","n","t","a","r","y"," ","o","n"," ">>
ExpertSuffix == <<" ","D","e","v","e","l","o","p","m","e","n","t","s">>

RecentIn == <<"R","e","c","e","n","t"," ","d","e","v","e","l","o","p","m","e","n","t","s"," ","i","n"," ">>
AnalysisOf == <<"A","n","a","l","y","s","i","s"," ","o","f"," ","c","u","r","r","e","n","t"," ">>
ExpertsOn == <<"L","e","a","d","i","n","g"," ","e","x","p","e","r","t","s"," ","w","e","i","g","h"," ","i","n"," ","o","n"," ","r","e","c","e","n","t"," ">>

\* The three templates; each summary is written up to the category it embeds.
mock_templates(category) ==
    << [title |-> BreakingPrefix \o TitleCase(category),
        summary |-> RecentIn \o category, source |-> "Mock News Network"],
       [title |-> TitleCase(category) \o TrendsSuffix,
        summary |-> AnalysisOf \o category, source |-> "Global Analysis Today"],
       [title |-> ExpertPrefix \o TitleCase(category) \o ExpertSuffix,
        summary |-> ExpertsOn \o category, source |-> "Expert Insights"] >>

MockUrls == <<"https://mock-news.com/article-1", "https://mock-news.com/article-2",
              "https://mock-news.com/article-3">>

generate_mock_articles(mock_mode, category, count) ==
    IF ~mock_mode
    THEN <<>>
    ELSE LET n == IF count < Len(mock_templates(category)) THEN count
                  ELSE Len(mock_templates(category))
         IN  [i \in 1..n |->
                 NewsArticle(mock_templates(category)[i].title,
                             mock_templates(category)[i].summary, MockUrls[i],
                             mock_templates(category)[i].source, category)]

\* ------------------------------------------------------ NoobieConfig.to_dict
SecretFields == {"news_api_key", "claude_api_key", "openai_api_key", "github_token"}
PublicFields ==
    {"github_repo", "github_branch", "blog_title", "blog_description", "author_name",
     "max_articles", "log_level", "upload_to_github", "mock_mode", "news_categories"}

\* Mutant of config_to_dict: the token itself is put in the dictionary.
config_to_dict_with_token(cfg) ==
    [github_repo |-> cfg.github_repo, github_branch |-> cfg.github_branch,
     blog_title |-> cfg.blog_title, blog_description |-> cfg.blog_description,
     author_name |-> cfg.author_name, max_articles |-> cfg.max_articles,
     log_level |-> cfg.log_level, upload_to_github |-> cfg.upload_to_github,
     mock_mode |-> cfg.mock_mode, news_categories |-> cfg.news_categories,
     has_news_api_key |-> Truthy(cfg.news_api_key),
     has_claude_api_key |-> Truthy(cfg.claude_api_key),
     has_github_token |-> Truthy(cfg.github_token),
     github_token |-> cfg.github_token]

\* NoobieConfig.to_dict
config_to_dict(cfg) ==
    [github_repo |-> cfg.github_repo, github_branch |-> cfg.github_branch,
     blog_title |-> cfg.blog_title, blog_description |-> cfg.blog_description,
     author_name |-> cfg.author_name, max_articles |-> cfg.max_articles,
     log_level |-> cfg.log_level, upload_to_github |-> cfg.upload_to_github,
     mock_mode |-> cfg.mock_mode, news_categories |-> cfg.news_categories,
     has_news_api_key |-> Truthy(cfg.news_api_key),
     has_claude_api_key |-> Truthy(cfg.claude_api_key),
     has_github_token |-> Truthy(cfg.github_token)]

\* A key is None when unset, and may be set to the empty string.
SecretValues == {None, <<>>, EnvKey, FileKey}

\* Configurations with every field of to_dict and every key.
FullConfigs ==
    [news_api_key : SecretValues, claude_api_key : SecretValues,
     openai_api_key : SecretValues, github_token : SecretValues,
     github_repo : {"akhilreddydanda/NOOBIE"}, github_branch : {"main"},
     blog_title : {"NOOBIE AI - Daily News Intelligence"},
     blog_description : {"AI-powered daily analysis of global news and trends"},
     author_name : {"NOOBIE AI"}, max_articles : {DefaultMaxArticles}, log_level : {"INFO"},
     upload_to_github : BOOLEAN, mock_mode : BOOLEAN,
     news_categories : {DefaultCategories}]

\* ------------------------------------------------------------ articles cache
\* The ten fields of the dataclass NewsArticle; the first six are required by
\* its constructor.
ArticleFields ==
    {"title", "summary", "url", "published_date", "source", "category",
     "content", "author", "image_url", "sentiment_score"}
RequiredFields == {"title", "summary", "url", "published_date", "source", "category"}

\* A float, as the characters of its repr behind a tag.
IsFloat(v) == v # <<>> /\ Head(v) = "float"

\* Mutant of to_dict: the last key is left out.
to_dict_without_score(article) ==
    [k \in ArticleFields \ {"sentiment_score"} |-> article[k]]

\* NewsArticle.to_dict
to_dict(article) == [k \in ArticleFields |-> article[k]]

\* The characters json.dump writes between the quotes of a string, with
\* ensure_ascii=False: quote, backslash and newline are escaped.
RECURSIVE EscapeJson(_)
EscapeJson(s) ==
    IF s = <<>> THEN <<>>
    ELSE (IF Head(s) = "\"" THEN <<"\\", "\"">>
          ELSE IF Head(s) = "\\" THEN <<"\\", "\\">>
          ELSE IF Head(s) = "\n" THEN <<"\\", "n">>
          ELSE <<Head(s)>>) \o EscapeJson(Tail(s))

\* The string json.load reads from the characters between two quotes.
RECURSIVE UnescapeJson(_)
UnescapeJson(t) ==
    IF t = <<>> THEN <<>>
    ELSE IF Head(t) = "\\" /\ Len(t) >= 2
         THEN <<IF t[2] = "n" THEN "\n" ELSE t[2]>> \o UnescapeJson(SubSeq(t, 3, Len(t)))
         ELSE <<Head(t)>> \o UnescapeJson(Tail(t))

\* json.dump of one value of an article's dictionary: None is written as null,
\* a float as its repr, a string between quotes.
JsonValue(v) ==
    IF v = None THEN [kind |-> "null", text |-> <<>>]
    ELSE IF IsFloat(v) THEN [kind |-> "number", text |-> Tail(v)]
    ELSE [kind |-> "string", text |-> EscapeJson(v)]

\* json.load of one value.
PythonValue(json) ==
    IF json.kind = "null" THEN None
    ELSE IF json.kind = "number" THEN <<"float">> \o json.text
    ELSE UnescapeJson(json.text)

\* The cache file: absent, or the JSON object save_articles_cache wrote.
NoFile == [exists |-> FALSE, count |-> 0, articles |-> <<>>]

\* save_articles_cache: cache_data as json.dump writes it.
save_articles_cache(articles) ==
    [exists |-> TRUE, count |-> Len(articles),
     articles |-> [i \in 1..Len(articles) |->
                      [k \in DOMAIN to_dict(articles[i]) |->
                          JsonValue(to_dict(articles[i])[k])]]]

\* NewsArticle(**article_data): a TypeError for an unknown or a missing
\* required key; an optional key left out defaults to None.
Constructible(article_data) ==
    /\ DOMAIN article_data \subseteq ArticleFields
    /\ RequiredFields \subseteq DOMAIN article_data

\* load_articles_cache: any exception (no file, a TypeError of the
\* constructor) gives the empty list.
load_articles_cache(file) ==
    IF ~file.exists \/ \E i \in 1..Len(file.articles) : ~Constructible(file.articles[i])
    THEN <<>>
    ELSE [i \in 1..Len(file.articles) |->
             [k \in ArticleFields |->
                 IF k \in DOMAIN file.articles[i]
                 THEN PythonValue(file.articles[i][k])
                 ELSE None]]

\* ------------------------------------------------------------------- state
VARIABLES
    config,             \* the NoobieConfig the fetcher was built with
    pc,                 \* where fetch_trending_news stands
    cat,                \* index in config.news_categories of the for loop
    category_articles,  \* the local list of the loop's current iteration
    all_articles,       \* the concatenation built by the loop
    unique_articles,    \* what _deduplicate_articles returned
    final_articles,     \* what fetch_trending_news returns
    raised,             \* the exception propagating out of the call, or "none"
    attempt,            \* failed attempts of this topic's keyed request: the
                        \* value of the loop variable of _make_request_with_retry
                        \* when the next attempt starts
    data,               \* what _make_request_with_retry returned
    wait_time,          \* the backoff computed by the latest except branch
    waited,             \* what the latest step slept in time.sleep(wait_time)
                        \* of the except branch; -1 when it did not sleep there
    time_since_last,    \* time.time() - self.last_request_time, were it read
                        \* now; every value >= min_request_interval is kept
                        \* as min_request_interval
    requested,          \* whether this fetcher has issued an outbound request
    since_request,      \* time since the latest outbound request left (capped
                        \* like time_since_last)
    http_calls,         \* session.get calls of this topic's keyed request
    request_gap,        \* when the latest step issued a request that was not
                        \* the fetcher's first: the time since the request
                        \* before it (capped like time_since_last); else -1
    slept,              \* what _rate_limit slept in the latest step
    keyed_count,        \* articles the keyed source gave for this topic
    feed_called,        \* whether the feed was fetched for this topic
    feed,               \* what feedparser.parse gave for this topic (NoFeed
                        \* while the feed was not fetched)
    rss_articles,       \* what fetch_google_news_rss returned for this topic
    max_results,        \* the max_results argument of fetch_gnews
    requested_max,      \* the 'max' parameter of the latest keyed request (-1
                        \* while none was made)
    cache_input,        \* the list save_articles_cache was called with
    cache_file,         \* the content of the cache file
    cached_articles,    \* what load_articles_cache returned
    environ,            \* os.environ, as load_config reads it
    config_json,        \* the file config.json, as load_config reads it
    config_dict,        \* what config.to_dict() returned (empty before the call)
    entry_point,        \* the entry point of the run: "daily" or "manual"
    fetched,            \* the handler's local articles, once it is assigned
    blog_called,        \* whether generate_blog_post was called
    blog_input,         \* the list generate_blog_post was called with
    blog_post,          \* what generate_blog_post returned: "None", "BlogPost"
    publish_called,     \* whether publish_blog_post was called
    jekyll_result,      \* success of the PublishResult of setup_jekyll_config:
                        \* "none" before the call, then "success" or "failure"
    index_result,       \* the same for create_index_page
    publish_result,     \* the same for publish_blog_post
    run_outcome,        \* how the handler ended: "running", "completed",
                        \* "raised", or the status of its HTTP response
    api_calls,          \* the generators generate_blog_post has called, in
                        \* the order of the calls
    claude_content,     \* what _call_claude_api returned (None before the call)
    openai_content,     \* what _call_openai_api returned (None before the call)
    blog_content,       \* the local blog_content of generate_blog_post
    github_sha,         \* the repository: the sha of the file at the post's
                        \* path, 0 while there is no such file
    publish_pc,         \* per run, where its publish_blog_post call stands
    existing_sha,       \* per run, the local sha (0 for None)
    put_request,        \* per run, the PUT it issued: the sha it carried (0
                        \* for none), the file's sha in the repository when it
                        \* arrived, and whether it succeeded
    publish_returned,   \* per run, what publish_blog_post came to: "none",
                        \* the success of its PublishResult, or "raised"
    github_requests,    \* per run, the requests its publisher has issued
    daily_log_rows,     \* the table daily_log of the food tracker: row i has id i
    food_entry_rows,    \* the table food_entry
    handler_pc,         \* per worker of the web server, where the request it
                        \* handles stands ("idle" between requests)
    handler_request,    \* per worker, the request it handles
    session_daily_log,  \* per worker, the DailyLog object in its session: the
                        \* row's id and the column values as it loaded them
    requests_started    \* requests the server has accepted so far

vars == <<config, pc, cat, category_articles, all_articles, unique_articles,
          final_articles, raised, attempt, data, wait_time, waited, time_since_last,
          requested, since_request, http_calls, request_gap, slept, keyed_count, feed_called,
          feed, rss_articles, max_results, requested_max, cache_input, cache_file,
          cached_articles, environ, config_json, config_dict, entry_point, fetched, blog_called,
          blog_input, blog_post, publish_called, jekyll_result, index_result,
          publish_result, run_outcome, api_calls, claude_content, openai_content,
          blog_content, github_sha, publish_pc, existing_sha, put_request, publish_returned,
          github_requests, daily_log_rows, food_entry_rows, handler_pc, handler_request,
          session_daily_log, requests_started>>

\* The locals of BlogWriter.generate_blog_post.
writer_state == <<api_calls, claude_content, openai_content, blog_content>>

\* The repository and the publish_blog_post calls of the runs.
publisher_state ==
    <<github_sha, publish_pc, existing_sha, put_request, publish_returned, github_requests>>

\* The food tracker: its database and the requests its workers handle.
tracker_state ==
    <<daily_log_rows, food_entry_rows, handler_pc, handler_request, session_daily_log,
      requests_started>>

\* What neither the fetch, the handlers' own steps, the cache nor the
\* configuration touch.
components_state == <<writer_state, publisher_state, tracker_state>>

\* The cache file and what was written to and read from it.
cache_state == <<cache_input, cache_file, cached_articles>>

\* The handler's own state.
run_state ==
    <<entry_point, fetched, blog_called, blog_input, blog_post, publish_called, jekyll_result,
      index_result, publish_result, run_outcome>>

\* What the handlers' steps after the fetch leave alone: the fetcher's state
\* apart from the rate limiter's, the cache and the inputs of load_config.
fetcher_state ==
    <<cat, category_articles, all_articles, unique_articles, final_articles, raised,
      attempt, data, wait_time, http_calls, keyed_count, feed_called, feed, rss_articles,
      max_results, cache_input, cache_file, cached_articles, environ, config_json, config_dict>>

Capped(t) == IF t < min_request_interval THEN t ELSE min_request_interval

\* _rate_limit, given time_since_last on entry: what it sleeps, and the
\* difference time.time() - last_request_time when it returns (it stamps
\* last_request_time after the sleep).
sleep_time(since) ==
    IF since < min_request_interval THEN min_request_interval - since ELSE 0

\* Mutant of _rate_limit: last_request_time is set to the time read before the
\* sleep.
_rate_limit_stamps_before_sleep(since) ==
    [slept |-> sleep_time(since), since |-> sleep_time(since)]

_rate_limit(since) == [slept |-> sleep_time(since), since |-> 0]

\* generate_blog_post not yet called.
InitWriter ==
    /\ api_calls = <<>>
    /\ claude_content = None
    /\ openai_content = None
    /\ blog_content = None

\* The two runs that may publish at the same time: the timer's and a manual one.
Runs == {"timer", "manual"}

NoPut == [issued |-> FALSE, sha |-> 0, current |-> 0, succeeded |-> FALSE]

\* No publish_blog_post call has begun; the repository has no file at the path.
InitPublisher ==
    /\ github_sha = 0
    /\ publish_pc = [run \in Runs |-> "start"]
    /\ existing_sha = [run \in Runs |-> 0]
    /\ put_request = [run \in Runs |-> NoPut]
    /\ publish_returned = [run \in Runs |-> "none"]
    /\ github_requests = [run \in Runs |-> 0]

\* The threads of the web server that handle requests at the same time.
Workers == {"w1", "w2"}

NoRequestYet == [kind |-> "none", food_id |-> 0, quantity |-> 0, target |-> 0]
NoDailyLog == [id |-> 0, expired |-> FALSE, total_calories |-> 0, total_protein |-> 0]

\* The food tracker after db.create_all(): empty tables, no request yet.
InitTracker ==
    /\ daily_log_rows = <<>>
    /\ food_entry_rows = <<>>
    /\ handler_pc = [worker \in Workers |-> "idle"]
    /\ handler_request = [worker \in Workers |-> NoRequestYet]
    /\ session_daily_log = [worker \in Workers |-> NoDailyLog]
    /\ requests_started = 0

InitComponents ==
    /\ InitWriter
    /\ InitPublisher
    /\ InitTracker

\* A NewsFetcher as __init__ leaves it (last_request_time = 0, far in the
\* past), about to run fetch_trending_news.
InitFetcher ==
    /\ cat = 1
    /\ category_articles = <<>>
    /\ all_articles = <<>>
    /\ unique_articles = <<>>
    /\ final_articles = <<>>
    /\ raised = "none"
    /\ attempt = 0
    /\ data = NoData
    /\ wait_time = 0
    /\ waited = -1
    /\ time_since_last = min_request_interval
    /\ requested = FALSE
    /\ since_request = min_request_interval
    /\ http_calls = 0
    /\ request_gap = -1
    /\ slept = 0
    /\ keyed_count = 0
    /\ feed_called = FALSE
    /\ feed = NoFeed
    /\ rss_articles = <<>>
    /\ requested_max = -1
    /\ cache_file = NoFile
    /\ cached_articles = <<>>

\* load_config has returned; its inputs are not read again.
ConfigLoaded ==
    /\ environ = NoEnviron
    /\ config_json = NoConfigFile

\* The handler before it called anything.
InitRun ==
    /\ config_dict = <<>>
    /\ fetched = <<>>
    /\ blog_called = FALSE
    /\ blog_input = <<>>
    /\ blog_post = "None"
    /\ publish_called = FALSE
    /\ jekyll_result = "none"
    /\ index_result = "none"
    /\ publish_result = "none"
    /\ run_outcome = "running"

\* A run at the construction of its NewsFetcher (function_app.py lines 57 and
\* 156): the daily run got there only with a configuration validate() accepts,
\* the manual run with any.
Init ==
    /\ config \in Configs
    /\ entry_point \in {"daily", "manual"}
    /\ entry_point = "daily" => validate(config) = {}
    /\ InitFetcher
    /\ pc = "loop"
    /\ max_results = PerTopicLimit
    /\ cache_input = <<>>
    /\ InitRun
    /\ ConfigLoaded
    /\ InitComponents

\* self._rate_limit() followed by the outbound request.  The request leaves
\* when _rate_limit returns; blocked is the time the program then spends
\* blocked (in the call, and in a backoff sleep after it) before it can reach
\* the rate limiter again.
RateLimitedRequest(blocked) ==
    /\ slept' = _rate_limit(time_since_last).slept
    /\ request_gap' = IF ~requested THEN -1
                      ELSE Capped(since_request + _rate_limit(time_since_last).slept)
    /\ time_since_last' = Capped(_rate_limit(time_since_last).since + blocked)
    /\ since_request' = Capped(blocked)
    /\ requested' = TRUE

\* A step that issues no request.
NoRequest ==
    /\ slept' = 0
    /\ request_gap' = -1
    /\ waited' = -1
    /\ UNCHANGED <<time_since_last, requested, since_request, requested_max>>

category == config.news_categories[cat]

\* Mutant of extend: the new elements are put in front.
extend_at_front(list, items) == items \o list

\* list.extend(items)
extend(list, items) == list \o items

\* for category in self.config.news_categories: the start of one iteration,
\* up to the call of fetch_gnews (lines 265-270) and into it up to the call of
\* _make_request_with_retry (lines 116-129).
BeginCategory ==
    /\ pc = "loop"
    /\ cat <= Len(config.news_categories)
    /\ category_articles' = <<>>
    /\ pc' = IF Truthy(config.news_api_key) THEN "retry" ELSE "fallback"
    /\ attempt' = 0
    /\ http_calls' = 0
    /\ keyed_count' = 0
    /\ feed_called' = FALSE
    /\ feed' = NoFeed
    /\ rss_articles' = <<>>
    /\ NoRequest
    /\ UNCHANGED <<run_state, max_results, cache_state, environ, config_json, config_dict>>
    /\ UNCHANGED <<config, cat, all_articles, unique_articles, final_articles, raised,
                   data, wait_time>>
    /\ UNCHANGED components_state

\* Mutant of max_param: the requested page size is not capped.
max_param_uncapped(max_results_) == max_results_

\* 'max': min(max_results, 10) of the request's parameters.
max_param(max_results_) == IF max_results_ < GNewsLimit THEN max_results_ ELSE GNewsLimit

\* One attempt of _make_request_with_retry that succeeds with one of the
\* given bodies: the body is returned.
RequestReturns(bodies) ==
    /\ pc = "retry"
    /\ \E body \in bodies, latency \in 0..MaxLatency :
           /\ RateLimitedRequest(latency)
           /\ data' = body
    /\ requested_max' = max_param(max_results)
    /\ waited' = -1
    /\ http_calls' = http_calls + 1
    /\ pc' = "parse"
    /\ UNCHANGED <<run_state, max_results, cache_state, environ, config_json, config_dict>>
    /\ UNCHANGED <<config, cat, category_articles, all_articles, unique_articles,
                   final_articles, raised, attempt, wait_time, keyed_count, feed_called,
                   feed, rss_articles>>
    /\ UNCHANGED components_state

RequestSucceeds == RequestReturns(GNewsBodies)

\* 2 ** attempt
RECURSIVE Pow2(_)
Pow2(n) == IF n = 0 THEN 1 ELSE 2 * Pow2(n - 1)

\* Mutant of backoff: the base delay does not grow with the attempt.
backoff_constant(attempt_, jitter) == TicksPerSecond + jitter

\* The except branch's wait_time = (2 ** attempt) + random.uniform(0, 1), in
\* ticks, for a jitter of 0 .. TicksPerSecond - 1 ticks.
backoff(attempt_, jitter) == Pow2(attempt_) * TicksPerSecond + jitter

\* if attempt < max_retries - 1: whether the except branch sleeps.
retries_left(attempt_) == attempt_ < max_retries - 1

\* Mutant of more_attempts: one attempt too many.
more_attempts_off_by_one(attempt_) == attempt_ + 1 < max_retries + 1

\* for attempt in range(max_retries): whether another attempt follows.
more_attempts(attempt_) == attempt_ + 1 < max_retries

\* One attempt that raises a RequestException (transport failure, timeout,
\* HTTP error status): the except branch sleeps and the loop goes on, or,
\* after the last attempt, the loop ends and None is returned.
RequestFails ==
    /\ pc = "retry"
    /\ \E latency \in 0..MaxLatency, jitter \in 0..(TicksPerSecond - 1) :
           /\ wait_time' = backoff(attempt, jitter)
           /\ waited' = IF retries_left(attempt) THEN backoff(attempt, jitter) ELSE -1
           /\ RateLimitedRequest(
                  latency + IF retries_left(attempt) THEN backoff(attempt, jitter) ELSE 0)
    /\ http_calls' = http_calls + 1
    /\ requested_max' = max_param(max_results)
    /\ attempt' = attempt + 1
    /\ IF more_attempts(attempt)
       THEN /\ pc' = "retry"
            /\ UNCHANGED data
       ELSE /\ data' = NoData
            /\ pc' = "parse"
    /\ UNCHANGED <<run_state, max_results, cache_state, environ, config_json, config_dict>>
    /\ UNCHANGED <<config, cat, category_articles, all_articles, unique_articles,
                   final_articles, raised, keyed_count, feed_called,
                   feed, rss_articles>>
    /\ UNCHANGED components_state

\* fetch_gnews from the return of _make_request_with_retry on (lines 131-158),
\* and category_articles.extend (line 271).  A TypeError raised by the slice
\* of data['articles'] is caught nowhere and leaves fetch_trending_news.
GNewsReturns ==
    /\ pc = "parse"
    /\ LET gnews_articles == ParseGNews(data, category, max_results)
       IN  IF gnews_articles.raised = "none"
           THEN /\ category_articles' = extend(category_articles, gnews_articles.value)
                /\ keyed_count' = Len(gnews_articles.value)
                /\ pc' = "fallback"
                /\ UNCHANGED raised
           ELSE /\ raised' = gnews_articles.raised
                /\ pc' = "raised"
                /\ UNCHANGED <<category_articles, keyed_count>>
    /\ data' = NoData
    /\ wait_time' = 0
    /\ NoRequest
    /\ UNCHANGED <<run_state, max_results, cache_state, environ, config_json, config_dict>>
    /\ UNCHANGED <<config, cat, all_articles, unique_articles, final_articles,
                   attempt, http_calls, feed_called,
                   feed, rss_articles>>
    /\ UNCHANGED components_state

\* Mutant of needs_fallback: the feed is asked only for an empty list.
needs_fallback_when_empty(articles) == Len(articles) < 1

\* Mutant of needs_fallback: the feed is asked whenever the keyed source gave
\* fewer than its maximum.
needs_fallback_below_limit(articles) == Len(articles) < PerTopicLimit

\* if len(category_articles) < 2
needs_fallback(articles) == Len(articles) < 2

\* fetch_google_news_rss when the fallback is needed (lines 274-276,
\* fetch_rss_feed lines 163-203).
FetchRss ==
    /\ pc = "fallback"
    /\ needs_fallback(category_articles)
    /\ \E parsed \in Feeds, latency \in 0..MaxLatency :
           /\ RateLimitedRequest(latency)
           /\ feed' = parsed
           /\ rss_articles' = ParseFeed(parsed, category, PerTopicLimit)
           /\ category_articles' =
                  extend(category_articles, ParseFeed(parsed, category, PerTopicLimit))
    /\ feed_called' = TRUE
    /\ pc' = "mock"
    /\ UNCHANGED requested_max
    /\ UNCHANGED <<run_state, max_results, cache_state, environ, config_json, config_dict>>
    /\ UNCHANGED <<config, cat, all_articles, unique_articles, final_articles, raised,
                   attempt, data, wait_time, waited, http_calls, keyed_count>>
    /\ UNCHANGED components_state

\* The keyed source gave enough: no feed request.
SkipRss ==
    /\ pc = "fallback"
    /\ ~needs_fallback(category_articles)
    /\ pc' = "mock"
    /\ NoRequest
    /\ UNCHANGED <<run_state, max_results, cache_state, environ, config_json, config_dict>>
    /\ UNCHANGED <<config, cat, category_articles, all_articles, unique_articles,
                   final_articles, raised, attempt, data, wait_time, http_calls,
                   keyed_count, feed_called,
                   feed, rss_articles>>
    /\ UNCHANGED components_state

\* Mutant of needs_mock: mock articles also fill up a single real article.
needs_mock_below_two(articles, mock_mode) == Len(articles) < 2 /\ mock_mode

\* if len(category_articles) < 1 and self.config.mock_mode
needs_mock(articles, mock_mode) == Len(articles) < 1 /\ mock_mode

\* Lines 278-283: mock articles when the topic has none and mock mode is on,
\* then all_articles.extend(category_articles); the loop goes to the next topic.
EndCategory ==
    /\ pc = "mock"
    /\ LET with_mock ==
               IF needs_mock(category_articles, config.mock_mode)
               THEN extend(category_articles,
                           generate_mock_articles(config.mock_mode, category, MockCount))
               ELSE category_articles
       IN  /\ category_articles' = with_mock
           /\ all_articles' = extend(all_articles, with_mock)
    /\ cat' = cat + 1
    /\ pc' = "loop"
    /\ attempt' = 0
    /\ http_calls' = 0
    /\ keyed_count' = 0
    /\ feed_called' = FALSE
    /\ feed' = NoFeed
    /\ rss_articles' = <<>>
    /\ NoRequest
    /\ UNCHANGED <<run_state, max_results, cache_state, environ, config_json, config_dict>>
    /\ UNCHANGED <<config, unique_articles, final_articles, raised, data, wait_time>>
    /\ UNCHANGED components_state

\* Line 286, after the loop: unique_articles = self._deduplicate_articles(...).
\* Its ZeroDivisionError is caught nowhere.
Deduplicate ==
    /\ pc = "loop"
    /\ cat > Len(config.news_categories)
    /\ LET outcome == _deduplicate_articles(all_articles)
       IN  IF outcome.raised = "none"
           THEN /\ unique_articles' = outcome.value
                /\ pc' = "limit"
                /\ UNCHANGED raised
           ELSE /\ raised' = outcome.raised
                /\ pc' = "raised"
                /\ UNCHANGED unique_articles
    /\ NoRequest
    /\ UNCHANGED <<run_state, max_results, cache_state, environ, config_json, config_dict>>
    /\ UNCHANGED <<config, cat, category_articles, all_articles, final_articles, attempt,
                   data, wait_time, http_calls, keyed_count, feed_called,
                   feed, rss_articles>>
    /\ UNCHANGED components_state

\* Lines 289-298: final_articles = unique_articles[:self.config.max_articles].
Limit ==
    /\ pc = "limit"
    /\ final_articles' = SliceTo(unique_articles, config.max_articles)
    /\ pc' = "done"
    /\ NoRequest
    /\ UNCHANGED <<run_state, max_results, cache_state, environ, config_json, config_dict>>
    /\ UNCHANGED <<config, cat, category_articles, all_articles, unique_articles, raised,
                   attempt, data, wait_time, http_calls, keyed_count, feed_called,
                   feed, rss_articles>>
    /\ UNCHANGED components_state

\* ------------------------------------------- the handlers, after the fetch
GlobalNews == <<"g","l","o","b","a","l","-","n","e","w","s">>
BreakingNews == <<"b","r","e","a","k","i","n","g","-","n","e","w","s">>

\* count=3 of the handlers' calls of generate_mock_articles
SubstituteCount == 3

\* Mutant of mock_mode_when_empty: the daily run leaves config.mock_mode alone.
mock_mode_left_alone(entry_, mock_mode) == mock_mode

\* config.mock_mode when a handler found the fetched list empty: the daily run
\* sets it (function_app.py line 66), the manual run keeps the request's.
mock_mode_when_empty(entry_, mock_mode) == IF entry_ = "daily" THEN TRUE ELSE mock_mode

\* The topic the handler passes to generate_mock_articles.
substitute_topic(entry_) == IF entry_ = "daily" THEN GlobalNews ELSE BreakingNews

\* daily_blog_generation lines 64-69, manual_blog_generation lines 160-169:
\* an empty fetched list is replaced by mock articles, or answered with 400.
TreatArticles ==
    /\ pc = "done"
    /\ LET mock_mode == IF final_articles = <<>>
                        THEN mock_mode_when_empty(entry_point, config.mock_mode)
                        ELSE config.mock_mode
           treated == IF final_articles = <<>> /\ (entry_point = "daily" \/ config.mock_mode)
                      THEN generate_mock_articles(mock_mode, substitute_topic(entry_point),
                                                  SubstituteCount)
                      ELSE final_articles
       IN  /\ config' = [config EXCEPT !.mock_mode = mock_mode]
           /\ fetched' = treated
           /\ IF entry_point = "manual" /\ treated = <<>>
              THEN pc' = "finished" /\ run_outcome' = "400"
              ELSE pc' = "generate" /\ UNCHANGED run_outcome
    /\ NoRequest
    /\ UNCHANGED fetcher_state
    /\ UNCHANGED <<entry_point, blog_called, blog_input, blog_post, publish_called,
                   jekyll_result, index_result, publish_result>>
    /\ UNCHANGED components_state

\* BlogWriter.generate_blog_post: None for an empty list; otherwise a post,
\* from an API's content or from the mock content.
generate_blog_post(articles_) == IF articles_ = <<>> THEN "None" ELSE "BlogPost"

\* daily_blog_generation lines 73-76, manual_blog_generation lines 172-178.
GenerateBlogPost ==
    /\ pc = "generate"
    /\ blog_called' = TRUE
    /\ blog_input' = fetched
    /\ blog_post' = generate_blog_post(fetched)
    /\ IF generate_blog_post(fetched) = "None"
       THEN /\ pc' = "finished"
            /\ run_outcome' = IF entry_point = "daily" THEN "raised" ELSE "500"
       ELSE /\ pc' = IF entry_point = "daily" THEN "jekyll" ELSE "publish"
            /\ UNCHANGED run_outcome
    /\ NoRequest
    /\ UNCHANGED fetcher_state
    /\ UNCHANGED <<config, entry_point, fetched, publish_called, jekyll_result, index_result,
                   publish_result>>
    /\ UNCHANGED components_state

\* daily_blog_generation lines 82-85: setup_jekyll_config gets and puts
\* _config.yml and reports either outcome as a PublishResult; the handler only
\* logs a failure.
SetupJekyll ==
    /\ pc = "jekyll"
    /\ \E success \in BOOLEAN :
           jekyll_result' = IF success THEN "success" ELSE "failure"
    /\ pc' = "index"
    /\ NoRequest
    /\ UNCHANGED fetcher_state
    /\ UNCHANGED <<config, entry_point, fetched, blog_called, blog_input, blog_post,
                   publish_called, index_result, publish_result, run_outcome>>
    /\ UNCHANGED components_state

\* daily_blog_generation lines 88-90: create_index_page, likewise.
CreateIndexPage ==
    /\ pc = "index"
    /\ \E success \in BOOLEAN :
           index_result' = IF success THEN "success" ELSE "failure"
    /\ pc' = "publish"
    /\ NoRequest
    /\ UNCHANGED fetcher_state
    /\ UNCHANGED <<config, entry_point, fetched, blog_called, blog_input, blog_post,
                   publish_called, jekyll_result, publish_result, run_outcome>>
    /\ UNCHANGED components_state

\* Mutant of publish_outcome: the daily run completes whatever the result.
publish_outcome_ignoring_result(entry_, success) ==
    IF entry_ = "daily" THEN "completed" ELSE (IF success THEN "200" ELSE "500")

\* What the handler makes of publish_result.success: the daily run completes
\* or raises (lines 96-105), the manual run answers 200 or 500 (lines 194-207).
publish_outcome(entry_, success) ==
    IF entry_ = "daily"
    THEN (IF success THEN "completed" ELSE "raised")
    ELSE (IF success THEN "200" ELSE "500")

\* daily_blog_generation lines 93-105, manual_blog_generation lines 181-207:
\* publish_blog_post and what the handler makes of its result.
PublishPost ==
    /\ pc = "publish"
    /\ publish_called' = TRUE
    /\ \E success \in BOOLEAN :
           /\ publish_result' = IF success THEN "success" ELSE "failure"
           /\ run_outcome' = publish_outcome(entry_point, success)
    /\ pc' = "finished"
    /\ NoRequest
    /\ UNCHANGED fetcher_state
    /\ UNCHANGED <<config, entry_point, fetched, blog_called, blog_input, blog_post,
                   jekyll_result, index_result>>
    /\ UNCHANGED components_state

\* An exception leaves fetch_trending_news: the daily run logs and re-raises
\* it (lines 119-126), the manual run answers 500 (lines 209-222).
FetchRaised ==
    /\ pc = "raised"
    /\ pc' = "finished"
    /\ run_outcome' = IF entry_point = "daily" THEN "raised" ELSE "500"
    /\ NoRequest
    /\ UNCHANGED fetcher_state
    /\ UNCHANGED <<config, entry_point, fetched, blog_called, blog_input, blog_post,
                   publish_called, jekyll_result, index_result, publish_result>>
    /\ UNCHANGED components_state

Next ==
    \/ BeginCategory
    \/ RequestSucceeds
    \/ RequestFails
    \/ GNewsReturns
    \/ FetchRss
    \/ SkipRss
    \/ EndCategory
    \/ Deduplicate
    \/ Limit
    \/ TreatArticles
    \/ GenerateBlogPost
    \/ SetupJekyll
    \/ CreateIndexPage
    \/ PublishPost
    \/ FetchRaised

Spec == Init /\ [][Next]_vars

\* ------------------------------------------------- deduplication on its own
\* Titles of retained articles: equal up to case and spacing (FedFour,
\* FedShout), similar above 0.7 (FedFour/FedThree 3/4, FedFour/FedFive 4/5),
\* below it (FedThree/FedFive 3/5), exactly at it (Seven/Ten 7/10), unrelated
\* (Oil) and without any word (Blank).
TitlePool == {FedFour, FedFive, FedThree, FedShout, Seven, Ten, Blank, Oil}

SeqsUpTo(S, n) == UNION { [1..k -> S] : k \in 0..n }

\* The topic whose feed gave the article at position i of the collected list:
\* a topic contributes at most PerTopicLimit feed entries.
TopicAt(i) == IF i <= PerTopicLimit THEN GlobalPolitics ELSE TechnologyTrends

\* The articles two topics collected from their feeds, given their titles.
ArticlePool(titles) ==
    [i \in 1..Len(titles) |-> NewsArticle(titles[i], SomeText, "u", "RSS Feed", TopicAt(i))]

\* fetch_trending_news at line 286, the loop over two topics done without a
\* key: any list of retained feed articles may have been collected.
InitDedup ==
    /\ config \in [news_api_key : {None}, mock_mode : {FALSE},
                   max_articles : MaxArticlesValues,
                   news_categories : {<<GlobalPolitics, TechnologyTrends>>}]
    /\ \E titles \in SeqsUpTo(TitlePool, MaxLen) :
           /\ all_articles = ArticlePool(titles)
           /\ category_articles = SubSeq(all_articles, PerTopicLimit + 1, Len(titles))
    /\ pc = "loop"
    /\ cat = 3
    /\ unique_articles = <<>>
    /\ final_articles = <<>>
    /\ raised = "none"
    /\ attempt = 0
    /\ data = NoData
    /\ wait_time = 0
    /\ waited = -1
    /\ time_since_last = 0
    /\ requested = TRUE
    /\ since_request = 0
    /\ http_calls = 0
    /\ request_gap = -1
    /\ slept = 0
    /\ keyed_count = 0
    /\ feed_called = FALSE
    /\ feed = NoFeed
    /\ rss_articles = <<>>
    /\ requested_max = -1
    /\ cache_input = <<>>
    /\ cache_file = NoFile
    /\ cached_articles = <<>>
    /\ max_results = PerTopicLimit
    /\ entry_point = "manual"
    /\ InitRun
    /\ ConfigLoaded
    /\ InitComponents

NextDedup ==
    \/ Deduplicate
    \/ Limit

SpecDedup == InitDedup /\ [][NextDedup]_vars

\* ------------------------------------------------------ fetch_gnews on its own
\* The pages the keyed provider may answer with: any number of well-formed
\* entries up to its maximum page size, whatever 'max' asked for.
GNewsPages ==
    { GNewsBody("articles_list", [i \in 1..n |-> GNewsEntry(Oil, SomeText, "p")]) :
          n \in 0..GNewsLimit }

\* fetch_gnews called with any max_results, at its call of
\* _make_request_with_retry (line 129).
InitGNews ==
    /\ config \in [news_api_key : {<<"k","e","y">>}, mock_mode : {FALSE},
                   max_articles : {MaxArticles}, news_categories : {<<GlobalPolitics>>}]
    /\ InitFetcher
    /\ pc = "retry"
    /\ max_results \in 0..MaxResults
    /\ cache_input = <<>>
    /\ entry_point = "manual"
    /\ InitRun
    /\ ConfigLoaded
    /\ InitComponents

PageReturned == RequestReturns(GNewsPages)

NextGNews ==
    \/ PageReturned
    \/ RequestFails
    \/ GNewsReturns

SpecGNews == InitGNews /\ [][NextGNews]_vars

\* ------------------------------------------------ the articles cache on its own
Url == <<"h","t","t","p","s",":","/","/","n",".","e","x","/","a","?","q","=","1","&","r","=","2">>
IsoDate == <<"2","0","2","4","-","0","5","-","0","1","T","0","8",":","0","0",":","0","0">>
\* Text with a quote, a backslash followed by n, a newline and a non-ASCII
\* letter.
Awkward == <<"\"","a","\"","\\","n","\n","\\","\\","é">>
NullWord == <<"n","u","l","l">>
NoneWord == <<"N","o","n","e">>
Agency == <<"G","N","e","w","s">>
Score == <<"float","0",".","5">>
NegativeScore == <<"float","-","1",".","0">>

\* Articles as the fetchers and the mock generator build them, and as a later
\* stage may have scored them.
CachePool ==
    { [title |-> FedFour, summary |-> SomeText, url |-> Url, published_date |-> IsoDate,
       source |-> Agency, category |-> GlobalPolitics, content |-> Awkward,
       author |-> NoneWord, image_url |-> Url, sentiment_score |-> None],
      [title |-> Awkward, summary |-> NullWord, url |-> Url, published_date |-> <<>>,
       source |-> Agency, category |-> TechnologyTrends, content |-> None,
       author |-> None, image_url |-> None, sentiment_score |-> None],
      [title |-> Blank, summary |-> Awkward, url |-> <<>>, published_date |-> IsoDate,
       source |-> NoneWord, category |-> GlobalPolitics, content |-> <<>>,
       author |-> Awkward, image_url |-> None, sentiment_score |-> Score],
      [title |-> Oil, summary |-> SomeText, url |-> Url, published_date |-> IsoDate,
       source |-> Agency, category |-> TechnologyTrends, content |-> SomeText,
       author |-> None, image_url |-> None, sentiment_score |-> NegativeScore] }

\* save_articles_cache about to be called with any list of articles.
InitCache ==
    /\ config \in [news_api_key : {None}, mock_mode : {FALSE},
                   max_articles : {MaxArticles}, news_categories : {<<GlobalPolitics>>}]
    /\ InitFetcher
    /\ pc = "cache"
    /\ max_results = PerTopicLimit
    /\ cache_input \in SeqsUpTo(CachePool, MaxLen)
    /\ entry_point = "manual"
    /\ InitRun
    /\ ConfigLoaded
    /\ InitComponents

\* save_articles_cache(articles)
SaveCache ==
    /\ pc = "cache"
    /\ cache_file' = save_articles_cache(cache_input)
    /\ pc' = "cached"
    /\ UNCHANGED <<config, fetched, cache_input, cached_articles, environ, config_json, config_dict>>
    /\ UNCHANGED <<cat, category_articles, all_articles, unique_articles, final_articles,
                   raised, attempt, data, wait_time, waited, time_since_last, requested,
                   since_request, http_calls, request_gap, slept, keyed_count, feed_called,
                   feed, rss_articles, max_results, requested_max>>
    /\ UNCHANGED <<entry_point, blog_called, blog_input, blog_post, publish_called,
                   jekyll_result, index_result, publish_result, run_outcome>>
    /\ UNCHANGED components_state

\* load_articles_cache(cache_file)
LoadCache ==
    /\ pc = "cached"
    /\ cached_articles' = load_articles_cache(cache_file)
    /\ pc' = "loaded"
    /\ UNCHANGED <<config, fetched, cache_input, cache_file, environ, config_json, config_dict>>
    /\ UNCHANGED <<cat, category_articles, all_articles, unique_articles, final_articles,
                   raised, attempt, data, wait_time, waited, time_since_last, requested,
                   since_request, http_calls, request_gap, slept, keyed_count, feed_called,
                   feed, rss_articles, max_results, requested_max>>
    /\ UNCHANGED <<entry_point, blog_called, blog_input, blog_post, publish_called,
                   jekyll_result, index_result, publish_result, run_outcome>>
    /\ UNCHANGED components_state

NextCache ==
    \/ SaveCache
    \/ LoadCache

SpecCache == InitCache /\ [][NextCache]_vars

\* --------------------------------------------------------- load_config on its own
\* load_config about to be called, for any environment and any config.json.
InitConfig ==
    /\ environ \in Environs
    /\ config_json \in ConfigFiles
    /\ config = from_env(NoEnviron)
    /\ InitFetcher
    /\ pc = "load_config"
    /\ max_results = PerTopicLimit
    /\ cache_input = <<>>
    /\ entry_point = "manual"
    /\ InitRun
    /\ InitComponents

\* config = load_config()
LoadConfig ==
    /\ pc = "load_config"
    /\ config' = load_config(environ, config_json)
    /\ pc' = "config_loaded"
    /\ UNCHANGED <<fetched, cache_input, cache_file, cached_articles, environ, config_json, config_dict>>
    /\ UNCHANGED <<cat, category_articles, all_articles, unique_articles, final_articles,
                   raised, attempt, data, wait_time, waited, time_since_last, requested,
                   since_request, http_calls, request_gap, slept, keyed_count, feed_called,
                   feed, rss_articles, max_results, requested_max>>
    /\ UNCHANGED <<entry_point, blog_called, blog_input, blog_post, publish_called,
                   jekyll_result, index_result, publish_result, run_outcome>>
    /\ UNCHANGED components_state

NextConfig == LoadConfig

SpecConfig == InitConfig /\ [][NextConfig]_vars

\* ------------------------------------------------------ to_dict on its own
\* config.to_dict() about to be called on any configuration.
InitToDict ==
    /\ config \in FullConfigs
    /\ InitFetcher
    /\ pc = "to_dict"
    /\ max_results = PerTopicLimit
    /\ cache_input = <<>>
    /\ entry_point = "daily"
    /\ InitRun
    /\ ConfigLoaded
    /\ InitComponents

\* config.to_dict(), as daily_blog_generation logs it and save_to_file writes it.
ToDict ==
    /\ pc = "to_dict"
    /\ config_dict' = config_to_dict(config)
    /\ pc' = "to_dict_done"
    /\ UNCHANGED <<config, fetched, cache_input, cache_file, cached_articles, environ,
                   config_json>>
    /\ UNCHANGED <<cat, category_articles, all_articles, unique_articles, final_articles,
                   raised, attempt, data, wait_time, waited, time_since_last, requested,
                   since_request, http_calls, request_gap, slept, keyed_count, feed_called,
                   feed, rss_articles, max_results, requested_max>>
    /\ UNCHANGED <<entry_point, blog_called, blog_input, blog_post, publish_called,
                   jekyll_result, index_result, publish_result, run_outcome>>
    /\ UNCHANGED components_state

NextToDict == ToDict

SpecToDict == InitToDict /\ [][NextToDict]_vars

\* ------------------------------------------- generate_blog_post on its own
\* The fetcher's whole state, the rate limiter's included.
whole_fetcher_state ==
    <<fetcher_state, waited, time_since_last, requested, since_request, request_gap, slept,
      requested_max>>

\* What the steps of generate_blog_post leave alone.
outside_writer ==
    <<config, whole_fetcher_state, entry_point, fetched, publish_called, jekyll_result,
      index_result, publish_result, run_outcome, publisher_state, tracker_state>>

\* Texts an API may answer with: with a heading, without one, blank, empty.
HeadedText == <<"#"," ","T","o","d","a","y","\n","\n","B","o","d","y">>
ApiTexts == {HeadedText, SomeText, Blank, <<>>}

\* What requests.post and the parsing of its body can come to in
\* _call_claude_api: an exception of requests, a body that is no JSON, JSON
\* without 'content' or with an empty one, a first block that is no object,
\* one without 'text', one whose text is null, one with a text.
ClaudeResponse(kind, text) == [kind |-> kind, text |-> text]
ClaudeResponses ==
    { ClaudeResponse(kind, <<>>) :
          kind \in {"request_exception", "invalid_json", "no_content", "empty_content",
                    "not_an_object", "no_text", "null_text"} }
    \cup { ClaudeResponse("text", text) : text \in ApiTexts }

\* _call_claude_api: the text of the first content block, '' when the block
\* has none; None without a key, for a failed request and for any exception
\* while the body is read (len(None) for a null text included).
_call_claude_api(claude_api_key, response) ==
    IF ~Truthy(claude_api_key) THEN None
    ELSE CASE response.kind = "text" -> response.text
           [] response.kind = "no_text" -> <<>>
           [] OTHER -> None

\* The same for _call_openai_api: JSON without 'choices' or with an empty
\* list, a first choice without message or content (KeyError), a null content.
OpenAIResponse(kind, text) == [kind |-> kind, text |-> text]
OpenAIResponses ==
    { OpenAIResponse(kind, <<>>) :
          kind \in {"request_exception", "invalid_json", "no_choices", "empty_choices",
                    "no_message", "null_content"} }
    \cup { OpenAIResponse("content", text) : text \in ApiTexts }

\* _call_openai_api: choices[0].message.content; None otherwise.
_call_openai_api(openai_api_key, response) ==
    IF ~Truthy(openai_api_key) THEN None
    ELSE CASE response.kind = "content" -> response.text
           [] OTHER -> None

\* The heading of the mock content, up to the date.
MockHeading == <<"#"," ","T","o","d","a","y","'","s"," ","G","l","o","b","a","l"," ","P","u","l","s","e"," ">>

\* _generate_mock_content: a fixed text that names the number of articles.
_generate_mock_content(articles) == MockHeading \o <<Digits[Len(articles) + 1]>>

\* Values of the two API keys: unset, set but empty, set.
WriterKeys == {None, <<>>, EnvKey}

\* The article lists generate_blog_post is called with.
WriterInputs ==
    { <<>>,
      <<NewsArticle(Oil, SomeText, "u1", "GNews", GlobalPolitics)>>,
      <<NewsArticle(Oil, SomeText, "u1", "GNews", GlobalPolitics),
        NewsArticle(Moon, SomeText, "u2", "Google News", TechnologyTrends)>> }

\* A BlogWriter about to run generate_blog_post(articles).
InitWriterCall ==
    /\ config \in [claude_api_key : WriterKeys, openai_api_key : WriterKeys]
    /\ blog_input \in WriterInputs
    /\ pc = "blog"
    /\ InitFetcher
    /\ max_results = PerTopicLimit
    /\ cache_input = <<>>
    /\ entry_point = "manual"
    /\ config_dict = <<>>
    /\ fetched = <<>>
    /\ blog_called = FALSE
    /\ blog_post = "None"
    /\ publish_called = FALSE
    /\ jekyll_result = "none"
    /\ index_result = "none"
    /\ publish_result = "none"
    /\ run_outcome = "running"
    /\ ConfigLoaded
    /\ InitWriter
    /\ InitPublisher
    /\ InitTracker

\* Lines 325-335: None for an empty list, before any generator is tried.
StartBlogPost ==
    /\ pc = "blog"
    /\ blog_called' = TRUE
    /\ IF blog_input = <<>>
       THEN pc' = "returned"
       ELSE pc' = "claude"
    /\ blog_post' = "None"
    /\ blog_content' = None
    /\ UNCHANGED <<blog_input, api_calls, claude_content, openai_content>>
    /\ UNCHANGED outside_writer

\* Lines 337-339: if self.config.claude_api_key: blog_content = _call_claude_api(...)
TryClaude ==
    /\ pc = "claude"
    /\ IF Truthy(config.claude_api_key)
       THEN \E response \in ClaudeResponses :
                /\ claude_content' = _call_claude_api(config.claude_api_key, response)
                /\ blog_content' = _call_claude_api(config.claude_api_key, response)
                /\ api_calls' = Append(api_calls, "claude")
       ELSE UNCHANGED <<claude_content, blog_content, api_calls>>
    /\ pc' = "openai"
    /\ UNCHANGED <<blog_input, blog_called, blog_post, openai_content>>
    /\ UNCHANGED outside_writer

\* Mutant of openai_needed: OpenAI is asked whenever its key is set.
openai_whenever_keyed(blog_content_, openai_api_key) == Truthy(openai_api_key)

\* if not blog_content and self.config.openai_api_key
openai_needed(blog_content_, openai_api_key) ==
    ~Truthy(blog_content_) /\ Truthy(openai_api_key)

\* Lines 341-344: the fallback to OpenAI.
TryOpenAI ==
    /\ pc = "openai"
    /\ IF openai_needed(blog_content, config.openai_api_key)
       THEN \E response \in OpenAIResponses :
                /\ openai_content' = _call_openai_api(config.openai_api_key, response)
                /\ blog_content' = _call_openai_api(config.openai_api_key, response)
                /\ api_calls' = Append(api_calls, "openai")
       ELSE UNCHANGED <<openai_content, blog_content, api_calls>>
    /\ pc' = "mock_content"
    /\ UNCHANGED <<blog_input, blog_called, blog_post, claude_content>>
    /\ UNCHANGED outside_writer

\* Lines 346-349: the fallback to the mock content.
UseMockContent ==
    /\ pc = "mock_content"
    /\ IF ~Truthy(blog_content)
       THEN /\ blog_content' = _generate_mock_content(blog_input)
            /\ api_calls' = Append(api_calls, "mock")
       ELSE UNCHANGED <<blog_content, api_calls>>
    /\ pc' = "parse"
    /\ UNCHANGED <<blog_input, blog_called, blog_post, claude_content, openai_content>>
    /\ UNCHANGED outside_writer

\* Lines 351-365: None without content, else the BlogPost _parse_blog_content
\* builds around it.
ParseBlogContent ==
    /\ pc = "parse"
    /\ blog_post' = IF ~Truthy(blog_content) THEN "None" ELSE "BlogPost"
    /\ pc' = "returned"
    /\ UNCHANGED <<blog_input, blog_called, api_calls, claude_content, openai_content,
                   blog_content>>
    /\ UNCHANGED outside_writer

NextWriter ==
    \/ StartBlogPost
    \/ TryClaude
    \/ TryOpenAI
    \/ UseMockContent
    \/ ParseBlogContent

SpecWriter == InitWriterCall /\ [][NextWriter]_vars

\* ------------------------------------------- publish_blog_post on its own
\* What the steps of publish_blog_post leave alone.
outside_publisher ==
    <<config, pc, whole_fetcher_state, run_state, writer_state, tracker_state>>

\* Two runs, each with its own GitHubPublisher built from the same
\* configuration, about to publish a post to the same path; the repository
\* has a file there or not.
InitPublish ==
    /\ config \in [github_token : {None, <<>>, EnvKey}]
    /\ github_sha \in {0, 1}
    /\ publish_pc = [run \in Runs |-> "start"]
    /\ existing_sha = [run \in Runs |-> 0]
    /\ put_request = [run \in Runs |-> NoPut]
    /\ publish_returned = [run \in Runs |-> "none"]
    /\ github_requests = [run \in Runs |-> 0]
    /\ pc = "publish"
    /\ InitFetcher
    /\ max_results = PerTopicLimit
    /\ cache_input = <<>>
    /\ entry_point = "daily"
    /\ InitRun
    /\ ConfigLoaded
    /\ InitWriter
    /\ InitTracker

\* if not self.config.github_token (line 154), negated
token_configured(github_token) == Truthy(github_token)

\* Lines 154-169: without a token a failed PublishResult at once; otherwise
\* the content and the file name are prepared.
BeginPublish(run) ==
    /\ publish_pc[run] = "start"
    /\ IF token_configured(config.github_token)
       THEN /\ publish_pc' = [publish_pc EXCEPT ![run] = "get"]
            /\ UNCHANGED publish_returned
       ELSE /\ publish_pc' = [publish_pc EXCEPT ![run] = "returned"]
            /\ publish_returned' = [publish_returned EXCEPT ![run] = "failure"]
    /\ UNCHANGED <<github_sha, existing_sha, put_request, github_requests>>
    /\ UNCHANGED outside_publisher

\* What _make_api_request('GET', ...) returns for the path: the file's object
\* with its sha, a listing (the path is a directory), or None, which stands
\* for 404 as well as for any failed request.
GetResponses(sha) ==
    {[kind |-> "none", sha |-> 0], [kind |-> "listing", sha |-> 0]}
    \cup (IF sha # 0 THEN {[kind |-> "file", sha |-> sha]} ELSE {})

\* Lines 171-173: existing_file = self._get_file_content(filename) and
\* sha = existing_file.get('sha') if existing_file else None.  A listing has
\* no get: the AttributeError is caught at line 207.
GetExisting(run) ==
    /\ publish_pc[run] = "get"
    /\ github_requests' = [github_requests EXCEPT ![run] = @ + 1]
    /\ \E existing_file \in GetResponses(github_sha) :
           IF existing_file.kind = "listing"
           THEN /\ publish_pc' = [publish_pc EXCEPT ![run] = "returned"]
                /\ publish_returned' = [publish_returned EXCEPT ![run] = "failure"]
                /\ UNCHANGED existing_sha
           ELSE /\ publish_pc' = [publish_pc EXCEPT ![run] = "put"]
                /\ existing_sha' = [existing_sha EXCEPT ![run] = existing_file.sha]
                /\ UNCHANGED publish_returned
    /\ UNCHANGED <<github_sha, put_request>>
    /\ UNCHANGED outside_publisher

\* The repository's contents API: a PUT creates the file when there is none
\* and the request carries no sha, and replaces it when the request carries
\* the sha the file has; any other PUT is refused.
Accepted(carried, current) == carried = current

\* What _make_api_request returns for the PUT: None when the request failed,
\* else response.json() if response.content else {}; truthy only for a body.
PutResult(response) == response = "body"

\* Mutant of result_success: the result does not depend on the upload.
result_success_always(result) == TRUE

\* if result (line 182)
result_success(result) == result

\* Lines 175-205: the PUT of _create_or_update_file, with the sha when one was
\* found, and the PublishResult made of its result.  The request may fail
\* to reach the repository whatever it carries; the answer of a PUT that
\* succeeded has a body or, from an intermediary, none.
PutFile(run) ==
    /\ publish_pc[run] = "put"
    /\ github_requests' = [github_requests EXCEPT ![run] = @ + 1]
    /\ \E response \in {"failed", "body", "no_body"} :
           LET succeeded == response # "failed" /\ Accepted(existing_sha[run], github_sha)
               result == succeeded /\ PutResult(response)
           IN  /\ put_request' = [put_request EXCEPT ![run] =
                      [issued |-> TRUE, sha |-> existing_sha[run], current |-> github_sha,
                       succeeded |-> succeeded]]
               /\ github_sha' = IF succeeded THEN github_sha + 1 ELSE github_sha
               /\ publish_returned' = [publish_returned EXCEPT ![run] =
                      IF result_success(result) THEN "success" ELSE "failure"]
    /\ publish_pc' = [publish_pc EXCEPT ![run] = "returned"]
    /\ UNCHANGED existing_sha
    /\ UNCHANGED outside_publisher

NextPublish ==
    \/ \E run \in Runs : BeginPublish(run)
    \/ \E run \in Runs : GetExisting(run)
    \/ \E run \in Runs : PutFile(run)

SpecPublish == InitPublish /\ [][NextPublish]_vars

\* ------------------------------------------------------- the food tracker
\* What the steps of the food tracker leave alone.
outside_tracker ==
    <<config, pc, whole_fetcher_state, run_state, writer_state, publisher_state>>

\* date.today(): the requests of one behaviour fall on one day.
Today == "today"

\* protein_target = db.Column(db.Float, default=150.0)
DefaultProteinTarget == 150

\* The table food: row i has id i.  Values per 100 g.
Foods ==
    <<[calories_per_100g |-> 100, protein_per_100g |-> 10],
      [calories_per_100g |-> 250, protein_per_100g |-> 30]>>

\* The requests the three handlers may get: food_id known or not, quantity in
\* grams, target in grams.
TrackerRequests ==
    {[kind |-> "index", food_id |-> 0, quantity |-> 0, target |-> 0]}
    \cup { [kind |-> "log_food", food_id |-> food_id, quantity |-> quantity, target |-> 0] :
               food_id \in 1..(Len(Foods) + 1), quantity \in {100, 200} }
    \cup {[kind |-> "set_protein_target", food_id |-> 0, quantity |-> 0, target |-> 120]}

\* The database before the first request (db.create_all()), the workers idle.
InitFoodTracker ==
    /\ InitTracker
    /\ config \in [news_api_key : {None}, mock_mode : {FALSE},
                   max_articles : {DefaultMaxArticles}, news_categories : {<<>>}]
    /\ pc = "finished"
    /\ InitFetcher
    /\ max_results = PerTopicLimit
    /\ cache_input = <<>>
    /\ entry_point = "manual"
    /\ InitRun
    /\ ConfigLoaded
    /\ InitWriter
    /\ InitPublisher

\* A worker takes the next request; its session is new.
AcceptRequest(worker) ==
    /\ handler_pc[worker] = "idle"
    /\ requests_started < MaxRequests
    /\ \E request \in TrackerRequests :
           handler_request' = [handler_request EXCEPT ![worker] = request]
    /\ handler_pc' = [handler_pc EXCEPT ![worker] = "query"]
    /\ session_daily_log' = [session_daily_log EXCEPT ![worker] = NoDailyLog]
    /\ requests_started' = requests_started + 1
    /\ UNCHANGED <<daily_log_rows, food_entry_rows>>
    /\ UNCHANGED outside_tracker

\* The rows DailyLog.query.filter_by(date=today) selects.
RowsOfToday == { i \in 1..Len(daily_log_rows) : daily_log_rows[i].date = Today }

\* The request is answered: the worker is idle again and its session removed.
Answered(worker) ==
    /\ handler_pc' = [handler_pc EXCEPT ![worker] = "idle"]
    /\ handler_request' = [handler_request EXCEPT ![worker] = NoRequestYet]
    /\ session_daily_log' = [session_daily_log EXCEPT ![worker] = NoDailyLog]

\* Where a handler goes once it has its DailyLog: index only reads from here.
after_daily_log(kind) ==
    CASE kind = "log_food" -> "compute"
      [] kind = "set_protein_target" -> "target"
      [] OTHER -> "idle"

\* daily_log = DailyLog.query.filter_by(date=today).first() (app.py lines 20,
\* 58, 137): one of today's rows with its column values as they are now (the
\* query has no ORDER BY), or None.
QueryDailyLog(worker) ==
    /\ handler_pc[worker] = "query"
    /\ IF RowsOfToday = {}
       THEN /\ handler_pc' = [handler_pc EXCEPT ![worker] = "create"]
            /\ UNCHANGED <<handler_request, session_daily_log>>
       ELSE \E id \in RowsOfToday :
                IF after_daily_log(handler_request[worker].kind) = "idle"
                THEN Answered(worker)
                ELSE /\ handler_pc' = [handler_pc EXCEPT ![worker] =
                            after_daily_log(handler_request[worker].kind)]
                     /\ session_daily_log' = [session_daily_log EXCEPT ![worker] =
                            [id |-> id, expired |-> FALSE,
                             total_calories |-> daily_log_rows[id].total_calories,
                             total_protein |-> daily_log_rows[id].total_protein]]
                     /\ UNCHANGED handler_request
    /\ UNCHANGED <<daily_log_rows, food_entry_rows, requests_started>>
    /\ UNCHANGED outside_tracker

\* if not daily_log: db.session.add(DailyLog(date=today)); db.session.commit()
\* (lines 21-24, 60-63; lines 138-140 and 144 with protein_target=target).
\* In log_food the committed object is loaded again at its next use.
CreateDailyLog(worker) ==
    /\ handler_pc[worker] = "create"
    /\ daily_log_rows' = Append(daily_log_rows,
           [date |-> Today,
            protein_target |-> IF handler_request[worker].kind = "set_protein_target"
                               THEN handler_request[worker].target
                               ELSE DefaultProteinTarget,
            total_calories |-> 0, total_protein |-> 0])
    /\ IF handler_request[worker].kind = "log_food"
       THEN /\ handler_pc' = [handler_pc EXCEPT ![worker] = "compute"]
            /\ session_daily_log' = [session_daily_log EXCEPT ![worker] =
                   [id |-> Len(daily_log_rows) + 1, expired |-> TRUE,
                    total_calories |-> 0, total_protein |-> 0]]
            /\ UNCHANGED handler_request
       ELSE Answered(worker)
    /\ UNCHANGED <<food_entry_rows, requests_started>>
    /\ UNCHANGED outside_tracker

\* (food.calories_per_100g * quantity) / 100
per_quantity(per_100g, quantity) == (per_100g * quantity) \div 100

\* log_food lines 65-79: the entry's calories and protein (AttributeError for
\* an unknown food: Food.query.get gave None), then daily_log.id and
\* daily_log.total_calories += calories, total_protein += protein on the
\* session's object, which is read from the database here when the commit of
\* line 63 expired it.
ComputeEntry(worker) ==
    /\ handler_pc[worker] = "compute"
    /\ IF handler_request[worker].food_id > Len(Foods)
       THEN Answered(worker)
       ELSE LET food == Foods[handler_request[worker].food_id]
                calories == per_quantity(food.calories_per_100g,
                                         handler_request[worker].quantity)
                protein == per_quantity(food.protein_per_100g,
                                        handler_request[worker].quantity)
                daily_log == session_daily_log[worker]
                loaded == IF daily_log.expired THEN daily_log_rows[daily_log.id]
                          ELSE daily_log
            IN  /\ session_daily_log' = [session_daily_log EXCEPT ![worker] =
                       [id |-> daily_log.id, expired |-> FALSE,
                        total_calories |-> loaded.total_calories + calories,
                        total_protein |-> loaded.total_protein + protein]]
                /\ handler_pc' = [handler_pc EXCEPT ![worker] = "commit"]
                /\ UNCHANGED handler_request
    /\ UNCHANGED <<daily_log_rows, food_entry_rows, requests_started>>
    /\ UNCHANGED outside_tracker

\* log_food lines 68-81: db.session.add(food_entry) and db.session.commit():
\* one transaction inserts the entry and updates the DailyLog row's totals
\* to the values of the session's object.
CommitEntry(worker) ==
    /\ handler_pc[worker] = "commit"
    /\ LET request == handler_request[worker]
           food == Foods[request.food_id]
           daily_log == session_daily_log[worker]
       IN  /\ food_entry_rows' = Append(food_entry_rows,
                  [daily_log_id |-> daily_log.id, food_id |-> request.food_id,
                   quantity_grams |-> request.quantity,
                   calories |-> per_quantity(food.calories_per_100g, request.quantity),
                   protein |-> per_quantity(food.protein_per_100g, request.quantity)])
           /\ daily_log_rows' = [daily_log_rows EXCEPT
                  ![daily_log.id].total_calories = daily_log.total_calories,
                  ![daily_log.id].total_protein = daily_log.total_protein]
    /\ Answered(worker)
    /\ UNCHANGED requests_started
    /\ UNCHANGED outside_tracker

\* set_protein_target lines 141-144: daily_log.protein_target = target and
\* the commit, which updates that column only.
SetTarget(worker) ==
    /\ handler_pc[worker] = "target"
    /\ daily_log_rows' = [daily_log_rows EXCEPT
           ![session_daily_log[worker].id].protein_target = handler_request[worker].target]
    /\ Answered(worker)
    /\ UNCHANGED <<food_entry_rows, requests_started>>
    /\ UNCHANGED outside_tracker

NextTracker ==
    \/ \E worker \in Workers : AcceptRequest(worker)
    \/ \E worker \in Workers : QueryDailyLog(worker)
    \/ \E worker \in Workers : CreateDailyLog(worker)
    \/ \E worker \in Workers : ComputeEntry(worker)
    \/ \E worker \in Workers : CommitEntry(worker)
    \/ \E worker \in Workers : SetTarget(worker)

SpecTracker == InitFoodTracker /\ [][NextTracker]_vars

\* ------------------------------------------------------------------ claims
Min(a, b) == IF a < b THEN a ELSE b

\* The first n elements of seq (none for n <= 0).
FirstN(seq, n) == SubSeq(seq, 1, IF n < 0 THEN 0 ELSE Min(n, Len(seq)))

\* C1: the list fetch_trending_news returns has at most max_articles elements,
\* for every configured max_articles.
C1_AtMostMaxArticles ==
    pc = "done" => Len(final_articles) <= config.max_articles

\* C2: every article fetch_trending_news returns, from the keyed API, the feed
\* or the mock generator, has a non-empty title and a non-empty summary.
NonEmptyText(v) == v # None /\ v # Missing /\ Len(v) > 0

C2_ReturnedArticlesHaveTitleAndSummary ==
    /\ \A i \in 1..Len(all_articles) :
           NonEmptyText(all_articles[i].title) /\ NonEmptyText(all_articles[i].summary)
    /\ \A i \in 1..Len(final_articles) :
           NonEmptyText(final_articles[i].title) /\ NonEmptyText(final_articles[i].summary)

\* A returned list that holds a keyed-API article, a feed article and a mock one.
C2_Witness ==
    /\ pc = "done"
    /\ \E i, j, k \in 1..Len(final_articles) :
           /\ final_articles[i].source = "GNews"
           /\ final_articles[j].source = "RSS Feed"
           /\ final_articles[k].source = "Mock News Network"

\* The Jaccard similarity of two titles is at most 0.7 (of two titles without
\* words too).
AtMostThreshold(title_a, title_b) ==
    LET a == WordSet(Lower(title_a))
        b == WordSet(Lower(title_b))
    IN  SimilarityDen * Cardinality(a \cap b) <= SimilarityNum * Cardinality(a \cup b)

\* The positions kept: position i is kept exactly when its title is at most
\* 0.7-similar to the title at every kept position before it.
KeptPositions(articles) ==
    CHOOSE K \in SUBSET (1..Len(articles)) :
        \A i \in 1..Len(articles) :
            i \in K <=> \A j \in K : j < i => AtMostThreshold(articles[i].title, articles[j].title)

RECURSIVE Restrict(_, _, _)
Restrict(articles, K, i) ==
    IF i > Len(articles) THEN <<>>
    ELSE (IF i \in K THEN <<articles[i]>> ELSE <<>>) \o Restrict(articles, K, i + 1)

\* C3: for every input list _deduplicate_articles keeps an article exactly when
\* its title's similarity to every previously kept title is at most 0.7.
C3_KeepsExactlyTheDissimilar ==
    (pc \in {"limit", "raised"}) =>
        /\ raised = "none"
        /\ unique_articles = Restrict(all_articles, KeptPositions(all_articles), 1)

\* C4: applying _deduplicate_articles to its own output returns that output
\* unchanged.
C4_DeduplicationIdempotent ==
    pc = "limit" => _deduplicate_articles(unique_articles) = Returns(unique_articles)

\* A deduplication that removed something and kept at least two articles.
C4_Witness ==
    /\ pc = "limit"
    /\ Len(unique_articles) >= 2
    /\ Len(unique_articles) < Len(all_articles)

\* C5: fetch_trending_news returns a list and raises no exception, whatever the
\* two sources answer for the topics.
C5_NeverRaises ==
    raised = "none" /\ pc # "raised"

\* After the last failed attempt: no exception, no data, no keyed article, and
\* the feed fallback is what follows.
ExhaustedRetriesState ==
    attempt = max_retries =>
        /\ raised = "none"
        /\ pc \in {"parse", "fallback", "mock"}
        /\ pc = "parse" => data = NoData
        /\ pc \in {"fallback", "mock"} => keyed_count = 0
        /\ pc = "fallback" => category_articles = <<>>
        /\ pc = "mock" => feed_called

\* C6: when all max_retries attempts of the keyed request failed,
\* _make_request_with_retry returns no data, fetch_gnews returns the empty
\* list without raising, the topic gets no keyed article, and the run goes on
\* with the feed fallback and then with the next topic.
C6_ExhaustedRetriesGiveEmptyList ==
    /\ []ExhaustedRetriesState
    /\ [][attempt = max_retries /\ pc = "parse" =>
              pc' = "fallback" /\ category_articles' = <<>> /\ raised' = "none"]_vars
    /\ [][attempt = max_retries /\ pc = "fallback" =>
              pc' = "mock" /\ feed_called' /\ requested' /\ raised' = "none"]_vars
    /\ [][attempt = max_retries /\ pc = "mock" =>
              pc' = "loop" /\ cat' = cat + 1 /\ raised' = "none"]_vars

\* The keyed request of the first of two topics failed three times and the
\* feed was fetched for it.
C6_Witness ==
    /\ attempt = max_retries
    /\ http_calls = max_retries
    /\ pc = "mock"
    /\ feed_called
    /\ cat = 1
    /\ Len(config.news_categories) = 2

\* C7: for each topic the feed fallback is invoked exactly when the keyed
\* source yielded fewer than 2 articles.
C7_FallbackIffFewerThanTwo ==
    pc = "mock" => (feed_called <=> keyed_count < 2)

\* The second topic got 2 or more keyed articles and no feed request, after a
\* first topic whose single keyed article made the fetcher ask the feed.
C7_Witness ==
    /\ pc = "mock"
    /\ cat = 2
    /\ keyed_count >= 2
    /\ ~feed_called
    /\ Len(all_articles) >= 2
    /\ all_articles[1].source = "GNews"
    /\ all_articles[2].source = "RSS Feed"

\* C8: the result is the first max_articles elements of the deduplication of
\* the concatenation of the per-topic results.
C8_ResultIsFirstMaxOfDeduplicated ==
    pc = "done" =>
        final_articles =
            FirstN(_deduplicate_articles(all_articles).value, config.max_articles)

\* C9: at least min_request_interval elapses between any two consecutive
\* outbound requests of the fetcher.
C9_RequestsOneSecondApart ==
    request_gap = -1 \/ request_gap >= min_request_interval

\* A request that had to wait for the rest of the second.
C9_Witness ==
    /\ request_gap = min_request_interval
    /\ slept > 0
    /\ slept < min_request_interval

\* C10: a keyed request makes at most max_retries HTTP calls, makes none after
\* a successful one, whose body it returns, and returns no data after the
\* last failed one.
C10_AtMostThreeAttempts ==
    /\ http_calls <= max_retries
    /\ pc = "retry" => http_calls = attempt /\ attempt < max_retries
    /\ pc = "parse" =>
           \/ data \in GNewsBodies /\ http_calls = attempt + 1 /\ attempt < max_retries
           \/ data = NoData /\ http_calls = max_retries /\ attempt = max_retries

\* The third attempt succeeded after two failures.
C10_Witness ==
    /\ pc = "parse"
    /\ http_calls = max_retries
    /\ data \in GNewsBodies

\* C11: after the k-th failed attempt (k = 1, 2) the except branch sleeps
\* 2^(k-1) seconds plus a jitter in [0, 1) before attempt k+1, and after the
\* final failed attempt it does not sleep.
C11_BackoffDoublesPerAttempt ==
    /\ pc = "retry" /\ attempt >= 1 =>
           /\ attempt < max_retries
           /\ \E jitter \in 0..(TicksPerSecond - 1) :
                  waited = Pow2(attempt - 1) * TicksPerSecond + jitter
           /\ time_since_last >= Capped(waited)
    /\ attempt = max_retries => waited = -1

\* The second failed attempt was followed by a sleep of two seconds and a
\* positive jitter, and the third attempt is about to start.
C11_Witness ==
    pc = "retry" /\ attempt = 2 /\ waited = 2 * TicksPerSecond + 1

\* The entries of a feed, among its first n, that fetch_rss_feed can turn into
\* an article with a title and a summary.
UsableEntries(parsed, n) ==
    SelectSeq(FirstN(parsed.entries, n),
              LAMBDA entry : /\ entry.parses
                             /\ NonEmptyText(entry.title)
                             /\ \/ NonEmptyText(entry.summary)
                                \/ entry.summary = Missing /\ NonEmptyText(entry.description))

\* C12 as stated: for a feed whose XML is malformed fetch_rss_feed returns the
\* empty list and raises nothing.
C12_MalformedFeedGivesNothing ==
    pc = "mock" /\ feed_called /\ feed.bozo =>
        rss_articles = <<>> /\ raised = "none"

\* C12 amended: for a feed whose XML is malformed fetch_rss_feed raises
\* nothing and returns one article for each usable entry, in the feed's order,
\* among the first max_results entries the parser could still read: the empty
\* list only when there is no such entry.
C12_MalformedFeedGivesReadableEntries ==
    pc = "mock" /\ feed_called /\ feed.bozo =>
        /\ raised = "none"
        /\ Len(rss_articles) = Len(UsableEntries(feed, PerTopicLimit))
        /\ \A i \in 1..Len(rss_articles) :
               /\ rss_articles[i].title = UsableEntries(feed, PerTopicLimit)[i].title
               /\ rss_articles[i].url = UsableEntries(feed, PerTopicLimit)[i].link
               /\ rss_articles[i].category = category

\* A malformed feed of which one usable entry was read has been fetched.
C12_Witness ==
    /\ pc = "mock"
    /\ feed_called
    /\ feed.bozo
    /\ Len(feed.entries) > Len(rss_articles)
    /\ Len(rss_articles) = 1

\* The elements of a response's 'articles', among its first n, that fetch_gnews
\* can turn into an article with a title and a summary.
UsableGNewsEntries(body, n) ==
    SelectSeq(FirstN(body.articles, n),
              LAMBDA entry : /\ entry.is_object
                             /\ NonEmptyText(entry.title)
                             /\ NonEmptyText(entry.description))

\* The articles are those of the usable entries, in the same order.
BuiltFrom(articles, titles_urls) ==
    /\ Len(articles) = Len(titles_urls)
    /\ \A i \in 1..Len(articles) :
           /\ articles[i].title = titles_urls[i][1]
           /\ articles[i].url = titles_urls[i][2]

\* A feed's malformed entries are skipped and its other entries kept, and a
\* feed that cannot be parsed gives nothing, without raising.
FeedEntriesSkippedOrKept ==
    pc = "mock" /\ feed_called =>
        /\ raised = "none"
        /\ BuiltFrom(rss_articles,
                     [i \in 1..Len(UsableEntries(feed, PerTopicLimit)) |->
                         <<UsableEntries(feed, PerTopicLimit)[i].title,
                           UsableEntries(feed, PerTopicLimit)[i].link>>])
        /\ feed.raises => rss_articles = <<>>

\* fetch_gnews, given the body _make_request_with_retry returned, does not
\* raise, keeps exactly the well-formed entries of an 'articles' array and
\* gives nothing for a body without an 'articles' array.
GNewsEntriesSkippedOrKept ==
    pc = "parse" =>
        /\ raised' = "none"
        /\ pc' = "fallback"
        /\ IF data.json = "articles_list"
           THEN BuiltFrom(category_articles',
                          [i \in 1..Len(UsableGNewsEntries(data, PerTopicLimit)) |->
                              <<UsableGNewsEntries(data, PerTopicLimit)[i].title,
                                UsableGNewsEntries(data, PerTopicLimit)[i].url>>])
           ELSE category_articles' = <<>>

\* C13: malformed entries of a response are skipped and its well-formed
\* entries kept, and a response without the expected keys (no 'articles'
\* array, or an 'articles' value that is no list of objects) gives zero
\* articles from that source without raising.
C13_MalformedResponseSkippedNotRaised ==
    /\ []FeedEntriesSkippedOrKept
    /\ [][GNewsEntriesSkippedOrKept]_vars

\* The position of a topic in config.news_categories.
TopicIndex(topic) ==
    CHOOSE i \in 1..Len(config.news_categories) : config.news_categories[i] = topic

\* Topics in declaration order, and within a topic no feed article before a
\* keyed-source article.
InTopicOrder(articles) ==
    \A i, j \in 1..Len(articles) :
        i < j =>
            /\ TopicIndex(articles[i].category) <= TopicIndex(articles[j].category)
            /\ articles[i].category = articles[j].category /\ articles[j].source = "GNews"
                   => articles[i].source = "GNews"

\* Whether sub is what remains of seq when some of its elements are removed.
RECURSIVE IsSubsequence(_, _)
IsSubsequence(sub, seq) ==
    IF sub = <<>> THEN TRUE
    ELSE IF seq = <<>> THEN FALSE
    ELSE IF Head(sub) = Head(seq) THEN IsSubsequence(Tail(sub), Tail(seq))
    ELSE IsSubsequence(sub, Tail(seq))

\* C14: the returned list is in topic-declaration order, within a topic the
\* keyed-source articles precede the feed articles, and deduplication and
\* truncation never reorder articles.
C14_TopicDeclarationOrder ==
    /\ InTopicOrder(all_articles)
    /\ pc \in {"limit", "done"} =>
           InTopicOrder(unique_articles) /\ IsSubsequence(unique_articles, all_articles)
    /\ pc = "done" =>
           InTopicOrder(final_articles) /\ IsSubsequence(final_articles, unique_articles)

\* A returned list with a keyed article before a feed article of the first
\* topic, then an article of the second topic, after a deduplication that
\* removed something.
C14_Witness ==
    /\ pc = "done"
    /\ Len(final_articles) >= 3
    /\ Len(unique_articles) < Len(all_articles)
    /\ final_articles[1].source = "GNews"
    /\ final_articles[2].source = "RSS Feed"
    /\ final_articles[2].category = final_articles[1].category
    /\ final_articles[3].category # final_articles[1].category

\* The handler is past its test of the fetched list.
PastTreatArticles ==
    /\ raised = "none"
    /\ pc \in {"generate", "jekyll", "index", "publish", "finished"}

MockSources == {"Mock News Network", "Global Analysis Today", "Expert Insights"}

\* C15: when fetch_trending_news returned the empty list, the daily run goes
\* on with mock articles, the manual run goes on with mock articles in mock
\* mode and otherwise answers 400 without generating or publishing, and no
\* run calls generate_blog_post or publish_blog_post for an empty list.
C15_EmptyFetchIsHandled ==
    /\ blog_called => blog_input # <<>>
    /\ publish_called => blog_called /\ blog_input # <<>>
    /\ PastTreatArticles /\ final_articles = <<>> =>
           IF entry_point = "daily" \/ config.mock_mode
           THEN /\ Len(fetched) = SubstituteCount
                /\ \A i \in 1..Len(fetched) : fetched[i].source \in MockSources
                /\ run_outcome # "400"
           ELSE /\ pc = "finished"
                /\ run_outcome = "400"
                /\ ~blog_called
                /\ ~publish_called

\* The daily run published a post generated from the three mock articles that
\* replaced an empty fetch.
C15_Witness ==
    /\ entry_point = "daily"
    /\ final_articles = <<>>
    /\ Len(config.news_categories) > 0
    /\ publish_called
    /\ Len(blog_input) = SubstituteCount

C17_CacheRoundTrip ==
    pc = "loaded" =>
        /\ Len(cached_articles) = Len(cache_input)
        /\ \A i \in 1..Len(cache_input) :
               /\ DOMAIN cached_articles[i] = ArticleFields
               /\ \A k \in ArticleFields : cached_articles[i][k] = cache_input[i][k]

\* A list of three articles, one scored and one with text that json.dump has
\* to escape, was written and read back.
C17_Witness ==
    /\ pc = "loaded"
    /\ Len(cache_input) = 3
    /\ Len(cached_articles) = 3
    /\ cache_input[1].sentiment_score = Score
    /\ cache_input[2].content = Awkward
    /\ cache_file.articles[2]["content"].text # Awkward

\* The value a field is to have: the environment's when its variable is set,
\* else config.json's when the file provides the field, else the default.
\* No environment variable sets news_categories.
ByPrecedence(env_set, env_value, field_name, file_value, default) ==
    IF env_set THEN env_value
    ELSE IF config_json.exists /\ field_name \in config_json.provides THEN file_value
    ELSE default

\* C18: load_config resolves every field with the precedence environment
\* variable > config.json > built-in default, also when the environment's
\* value equals the default, and for news_categories too.
C18_EnvThenFileThenDefault ==
    pc = "config_loaded" =>
        /\ config.news_api_key =
               ByPrecedence(environ.NEWS_API_KEY # Missing, environ.NEWS_API_KEY,
                            "news_api_key", config_json.news_api_key, None)
        /\ config.max_articles =
               ByPrecedence(environ.MAX_ARTICLES # Missing, ParseInt(environ.MAX_ARTICLES),
                            "max_articles", config_json.max_articles, DefaultMaxArticles)
        /\ config.mock_mode =
               ByPrecedence(environ.MOCK_MODE # Missing, Lower(environ.MOCK_MODE) = TrueWord,
                            "mock_mode", config_json.mock_mode, FALSE)
        /\ config.news_categories =
               ByPrecedence(FALSE, <<>>, "news_categories", config_json.news_categories,
                            DefaultCategories)

\* Two configurations that differ at most in the values of their keys, each
\* key being present (a non-empty string) in both or in neither.
DifferOnlyInSecretValues(cfg, other) ==
    /\ \A k \in PublicFields : cfg[k] = other[k]
    /\ \A k \in SecretFields : Truthy(cfg[k]) <=> Truthy(other[k])

\* C19: to_dict gives the same dictionary for any two configurations that
\* differ only in the values of news_api_key, claude_api_key, openai_api_key
\* or github_token, the same keys being present.
C19_ToDictHidesSecrets ==
    pc = "to_dict_done" =>
        \A other \in FullConfigs :
            DifferOnlyInSecretValues(config, other) => config_to_dict(other) = config_dict

\* The dictionary of a configuration with all four keys set.
C19_Witness ==
    /\ pc = "to_dict_done"
    /\ \A k \in SecretFields : Truthy(config[k])
    /\ config_dict.has_github_token
    /\ \E other \in FullConfigs :
           DifferOnlyInSecretValues(config, other) /\ other.github_token # config.github_token

\* The next step is one of fetch_trending_news.
InFetch == pc \in {"loop", "retry", "parse", "fallback", "mock", "limit"}

\* What _deduplicate_articles and the truncation return is made of articles of
\* their input, every field as it was.
ResultsMadeOfInputArticles ==
    /\ pc \in {"limit", "done"} => IsSubsequence(unique_articles, all_articles)
    /\ pc = "done" => IsSubsequence(final_articles, unique_articles)

\* C20: a fetch_trending_news call changes no field of the fetcher's
\* configuration (of the fetcher, only last_request_time changes), and
\* _deduplicate_articles and the truncation leave their input list and every
\* article's fields unchanged.
C20_FetchChangesOnlyLastRequestTime ==
    /\ [][InFetch => config' = config /\ max_results' = max_results]_vars
    /\ [][pc = "loop" /\ cat > Len(config.news_categories) =>
              all_articles' = all_articles]_vars
    /\ [][pc = "limit" =>
              unique_articles' = unique_articles /\ all_articles' = all_articles]_vars
    /\ []ResultsMadeOfInputArticles

\* A call that issued requests, removed a duplicate and truncated the rest.
C20_Witness ==
    /\ pc = "done"
    /\ requested
    /\ time_since_last < min_request_interval
    /\ Len(unique_articles) < Len(all_articles)
    /\ Len(final_articles) < Len(unique_articles)
    /\ Len(final_articles) > 0

\* C21: no run reaches the fetch stage with a configuration validate()
\* rejects for its max_articles: while fetch_trending_news runs, max_articles
\* of the configuration in use lies between 1 and 20.
C21_FetchOnlyWithValidMaxArticles ==
    InFetch => "max_articles must be between 1 and 20" \notin validate(config)

\* C22: in the daily run the stages are called in the order fetch, generate,
\* Jekyll set-up, index page, publish: each stage is called only when the one
\* before it was and the post only after a blog post was generated; a failed
\* Jekyll or index upload does not end the run; a failed publish or a missing
\* blog post ends it with an exception, never as completed.
C22_DailyStagesInOrder ==
    entry_point = "daily" =>
        /\ blog_called => pc \notin {"loop", "retry", "parse", "fallback", "mock", "limit",
                                     "done", "raised"}
        /\ jekyll_result # "none" => blog_called /\ blog_post = "BlogPost"
        /\ index_result # "none" => jekyll_result # "none"
        /\ publish_called => index_result # "none" /\ publish_result # "none"
        /\ publish_result # "none" => publish_called
        /\ pc = "index" => jekyll_result # "none" /\ run_outcome = "running"
        /\ pc = "publish" => index_result # "none" /\ run_outcome = "running"
        /\ pc = "finished" /\ jekyll_result # "none" => publish_called
        /\ publish_result = "failure" => run_outcome = "raised"
        /\ blog_called /\ blog_post = "None" => run_outcome = "raised" /\ ~publish_called
        /\ run_outcome = "completed" => publish_result = "success" /\ blog_post = "BlogPost"
        /\ run_outcome \in {"running", "completed", "raised"}

\* A daily run whose Jekyll and index uploads both failed and which went on
\* to publish, and failed there.
C22_Witness ==
    /\ entry_point = "daily"
    /\ jekyll_result = "failure"
    /\ index_result = "failure"
    /\ publish_result = "failure"
    /\ run_outcome = "raised"

\* The generators in the order generate_blog_post tries them.
GeneratorOrder == <<"claude", "openai", "mock">>

Called(generator) == \E i \in 1..Len(api_calls) : api_calls[i] = generator

\* C23: generate_blog_post tries Claude, OpenAI and the mock content in that
\* order, each at most once; Claude only with its key, OpenAI only with its
\* key and when Claude gave no content, the mock content only when neither
\* gave any; a non-empty list always ends in a blog post, an empty one in None
\* without any call.
C23_ClaudeThenOpenAIThenMock ==
    /\ IsSubsequence(api_calls, GeneratorOrder)
    /\ Called("claude") => Truthy(config.claude_api_key)
    /\ Called("openai") => Truthy(config.openai_api_key) /\ ~Truthy(claude_content)
    /\ Called("mock") => ~Truthy(claude_content) /\ ~Truthy(openai_content)
    /\ pc = "returned" /\ blog_input # <<>> =>
           /\ blog_post = "BlogPost"
           /\ Truthy(blog_content)
           /\ blog_content = IF Truthy(claude_content) THEN claude_content
                             ELSE IF Truthy(openai_content) THEN openai_content
                             ELSE _generate_mock_content(blog_input)
    /\ pc = "returned" /\ blog_input = <<>> => blog_post = "None" /\ api_calls = <<>>

\* Both APIs were asked and neither gave content: the post is made of the mock
\* content.
C23_Witness ==
    /\ pc = "returned"
    /\ api_calls = GeneratorOrder
    /\ claude_content = <<>>
    /\ openai_content = None
    /\ blog_post = "BlogPost"

\* C24: publish_blog_post reports every outcome as a PublishResult and never
\* raises: without a token the result is a failure and no request was issued,
\* a PUT that failed gives a failure, and a success is reported only after the
\* PUT of the post's file succeeded.
C24_PublishAlwaysReturnsResult ==
    \A run \in Runs :
        /\ publish_returned[run] # "raised"
        /\ publish_pc[run] = "returned" <=> publish_returned[run] \in {"success", "failure"}
        /\ ~Truthy(config.github_token) =>
               /\ github_requests[run] = 0
               /\ publish_pc[run] = "returned" => publish_returned[run] = "failure"
        /\ put_request[run].issued /\ ~put_request[run].succeeded =>
               publish_returned[run] = "failure"
        /\ publish_returned[run] = "success" =>
               put_request[run].issued /\ put_request[run].succeeded

\* One run's upload failed and was reported as a failure, the other's
\* succeeded.
C24_Witness ==
    /\ put_request["timer"].issued
    /\ ~put_request["timer"].succeeded
    /\ publish_returned["timer"] = "failure"
    /\ publish_returned["manual"] = "success"

\* C25: whenever publish_blog_post issues its PUT for a path that exists in
\* the repository, the request carries the sha the file has at that moment.
C25_PutCarriesCurrentSha ==
    \A run \in Runs :
        put_request[run].issued /\ put_request[run].current # 0 =>
            put_request[run].sha = put_request[run].current

\* How many articles of a list are real articles of a topic.
RealOfTopic(articles, topic) ==
    Cardinality({ i \in 1..Len(articles) :
                      articles[i].category = topic /\ articles[i].source \notin MockSources })

\* The topics of the configuration (each is declared once).
Topics == { config.news_categories[i] : i \in 1..Len(config.news_categories) }

\* C26 as stated: each topic contributes at most the per-topic limit of real
\* articles to the concatenation.
C26_AtMostLimitPerTopic ==
    /\ pc = "mock" => Len(category_articles) <= PerTopicLimit
    /\ InFetch => \A topic \in Topics : RealOfTopic(all_articles, topic) <= PerTopicLimit

\* C26, amended: each source contributes at most the limit, and the feed is
\* added to what the keyed source gave only when that was fewer than 2, so a
\* topic contributes at most limit + 1 real articles, and more than the limit
\* only as one keyed article followed by the feed's.
C26_AtMostLimitPerSource ==
    /\ pc = "mock" =>
           /\ keyed_count <= PerTopicLimit
           /\ Len(rss_articles) <= PerTopicLimit
           /\ category_articles = SubSeq(category_articles, 1, keyed_count) \o rss_articles
           /\ Len(category_articles) <= PerTopicLimit + 1
           /\ Len(category_articles) > PerTopicLimit => keyed_count = 1 /\ feed_called
           /\ ~feed_called => rss_articles = <<>>
    /\ InFetch => \A topic \in Topics :
                      RealOfTopic(all_articles, topic) <= PerTopicLimit + 1

\* A topic that contributed one keyed article and three of the feed.
C26_Witness ==
    /\ pc = "loop"
    /\ \E topic \in Topics : RealOfTopic(all_articles, topic) = PerTopicLimit + 1

IsMock(article) == article.source \in MockSources

HasMock(articles) == \E i \in 1..Len(articles) : IsMock(articles[i])

\* The articles of a list that belong to a topic.
OfTopic(articles, topic) == SelectSeq(articles, LAMBDA article : article.category = topic)

\* The topics and counts generate_mock_articles is called with.
MockTopics == {GlobalPolitics, TechnologyTrends, GlobalNews, BreakingNews}

RECURSIVE SumOfEntries(_, _, _)
SumOfEntries(entries, id, column) ==
    IF entries = <<>>
    THEN 0
    ELSE (IF Head(entries).daily_log_id = id THEN Head(entries)[column] ELSE 0)
         + SumOfEntries(Tail(entries), id, column)

\* C28: each DailyLog's total_calories and total_protein equal the sums of
\* the calories and the protein of the FoodEntry rows that reference it.
C28_TotalsEqualEntrySums ==
    \A id \in 1..Len(daily_log_rows) :
        /\ daily_log_rows[id].total_calories = SumOfEntries(food_entry_rows, id, "calories")
        /\ daily_log_rows[id].total_protein = SumOfEntries(food_entry_rows, id, "protein")

\* C29: there is at most one DailyLog row per date.
C29_OneDailyLogPerDate ==
    Cardinality(RowsOfToday) <= 1

====
